---- MODULE Spec2Model ----
(***************************************************************************)
(* Model of the monitoring engine of pykvarz/monitoring:                   *)
(*   - HostRepository (src/core/host_repository.py): the in-memory store   *)
(*   - MonitorThread  (src/monitor_thread.py): the cycle controller and    *)
(*     the status calculator _calculate_status                             *)
(*   - HostManager    (src/host_manager.py): the external commands         *)
(*   - DashboardSubscriber and DashboardManager: the per-status counters   *)
(*   - MonitorSubscriber (src/subscribers/monitor_subscriber.py)           *)
(*                                                                         *)
(* Specifications:                                                         *)
(*   SpecCalc   the status calculator applied to enumerated inputs         *)
(*   SpecSeq    one host, cycles processed one after the other             *)
(*   SpecStore  concurrent callers of the store, mutation then emission    *)
(*   SpecLock   concurrent callers of the store, step by step under mutex  *)
(*   SpecOps    single store calls, one after the other                    *)
(*   Spec       the controller loop interleaved with external commands     *)
(*   SpecPool   the controller loop with its thread pool, the workers and  *)
(*              update_config; SpecPoolFair adds the fairness of threads   *)
(***************************************************************************)
EXTENDS Integers, Sequences, FiniteSets, TLC

VARIABLES
    hosts,            \* HostRepository._hosts : id -> Host
    now,              \* wall clock, in seconds (datetime.now(timezone.utc))
    calc,             \* SpecCalc: one call of _calculate_status, input and result
    hist,             \* SpecSeq: ghost record of the probe outcomes processed
    threads,          \* SpecStore: per caller, the signals it still has to emit
    emitted,          \* SpecStore: signals in the order they were emitted
    mutations,        \* SpecStore: number of mutations applied to _hosts so far
    lastCall,         \* SpecStore: ghost record of the last store call
    pc,               \* MonitorThread.run: position in the loop
    snapshot,         \* MonitorThread.run: hosts returned by get_all (line 122)
    futures,          \* MonitorThread.run: ids whose future is not yet processed
    newly_offline,    \* MonitorThread.run: names collected for hosts_offline
    current_time,     \* MonitorThread.run: current_time of the cycle (line 139)
    interrupt_flag,   \* MonitorThread._interrupt_flag
    force_scan_flag,  \* MonitorThread._force_scan_flag
    running,          \* MonitorThread._running
    elapsed_wait,     \* MonitorThread.run: elapsed_wait, in 100 ms increments
    dialog,           \* HostManager.edit_host: the open HostDialog and its host
    unused,           \* ids uuid4 has not handed out yet (models.Host.id)
    mutex,            \* HostRepository._mutex: the caller holding it, or "free"
    dashboard,        \* DashboardManager._stats_counts
    config,           \* MonitorThread._config
    executor,         \* MonitorThread._executor: the pool it refers to
    tasks,            \* the Future of each host submitted in the cycle
    todo,             \* MonitorThread.run: hosts the submit loop has yet to reach
    stray,            \* probe tasks of earlier cycles that have not finished
    audit             \* per cycle: submissions and status writes of each host

vars == <<hosts, now, calc, hist, threads, emitted, mutations, lastCall, pc,
          snapshot, futures, newly_offline, current_time, interrupt_flag,
          force_scan_flag, running, elapsed_wait, dialog, unused, mutex,
          dashboard, config, executor, tasks, todo, stray, audit>>

storeVars == <<threads, emitted, mutations, lastCall, mutex>>
poolVars  == <<config, executor, tasks, todo, stray, audit>>
ctlVars   == <<pc, snapshot, futures, newly_offline, current_time,
               interrupt_flag, force_scan_flag, running, elapsed_wait>>

----------------------------------------------------------------------------
(* Bounds of the model *)

MaxTime == 40          \* SpecCalc: current_time and timestamps range over 0..MaxTime
MaxSeqTime == 12       \* SpecSeq: the clock stops here
MaxClock == 2          \* Spec: the clock takes at most this many steps
ClockStep == 5         \* Spec: seconds the clock advances in one step
MaxMutations == 3      \* SpecStore: store calls per behaviour
MaxWait == 2           \* Spec: 100 ms increments of one cooling wait
MaxCalls == 2          \* SpecLock: store calls made by the callers together

(* Program constants *)

HeartbeatThrottle == 60     \* seconds, monitor_thread.py line 228
LogicWaitingTimeout == 5    \* tests/test_monitor_logic.py line 19
LogicOfflineTimeout == 30   \* tests/test_monitor_logic.py line 18
WaitingTimeout == 5         \* tests/test_integration.py line 161
OfflineTimeout == 10        \* tests/test_integration.py line 162
DefaultWaitingTimeout == 60     \* models.py line 159
DefaultOfflineTimeout == 300    \* models.py line 160
MinWaitingTimeout == 5          \* models.py line 174
MaxWaitingTimeout == 3600       \* models.py line 174
MinOfflineTimeout == 10         \* models.py line 176
MaxOfflineTimeout == 7200       \* models.py line 176
MinMaxWorkers == 1              \* models.py line 178
MaxMaxWorkers == 100            \* models.py line 178
DialogMaxWaiting == 600         \* dialogs.py line 197

----------------------------------------------------------------------------
(* Timestamps.  The program keeps them as Optional[str]: None, or the text *)
(* datetime.isoformat() wrote; a record loaded from disk may also hold an  *)
(* empty or an unparseable text, or a text without UTC offset.             *)

NoneTs  == [kind |-> "none",  t |-> 0, tz |-> FALSE]
EmptyTs == [kind |-> "empty", t |-> 0, tz |-> FALSE]
BadTs   == [kind |-> "bad",   t |-> 0, tz |-> FALSE]

\* current_time.isoformat() of an aware UTC datetime
isoformat(t) == [kind |-> "iso", t |-> t, tz |-> TRUE]

\* a text written without offset (naive)
NaiveIso(t) == [kind |-> "iso", t |-> t, tz |-> FALSE]

\* Python truthiness of Optional[str]: None and "" are falsy
Truthy(s) == s.kind \in {"bad", "iso"}

\* datetime.fromisoformat(s): raises ValueError unless s is an ISO text
ParseFails(s) == s.kind # "iso"

\* fromisoformat(s), with tzinfo=UTC put on a naive value: seconds since epoch
fromisoformat(s) == s.t

Statuses == {"ONLINE", "WAITING", "OFFLINE", "MAINTENANCE"}

\* models.Host, the fields the engine reads or writes
Host(id, name, ip, status, last_seen, offline_since, notified, ne) ==
    [id |-> id, name |-> name, ip |-> ip, status |-> status,
     last_seen |-> last_seen, offline_since |-> offline_since,
     notified |-> notified, notifications_enabled |-> ne]

\* dataclass defaults of Host: status ONLINE, no timestamps
NewHost(id, name, ip, ne) ==
    Host(id, name, ip, "ONLINE", NoneTs, NoneTs, FALSE, ne)

Config(w, o) == [waiting_timeout |-> w, offline_timeout |-> o]

\* no HostDialog is open
NoDialog == [open |-> FALSE, host |-> NewHost("", "", "", TRUE)]

----------------------------------------------------------------------------
(* MonitorThread._calculate_status                                         *)

Result(s, since, upd) ==
    [new_status |-> s, offline_since |-> since, should_update |-> upd]

\* CalcHealthy with the recovery branch keeping the old offline_since
CalcHealthyKeepsSince(host, current) ==
    IF host.status # "ONLINE"
    THEN Result("ONLINE", host.offline_since, TRUE)
    ELSE Result(host.status, host.offline_since,
                ~Truthy(host.last_seen) \/ ParseFails(host.last_seen)
                \/ (current - fromisoformat(host.last_seen)) > HeartbeatThrottle)

\* CalcHealthy with the throttle window compared inclusively
CalcHealthyThrottleInclusive(host, current) ==
    IF host.status # "ONLINE"
    THEN Result("ONLINE", NoneTs, TRUE)
    ELSE Result(host.status, host.offline_since,
                ~Truthy(host.last_seen) \/ ParseFails(host.last_seen)
                \/ (current - fromisoformat(host.last_seen)) >= HeartbeatThrottle)

\* lines 209-232: a healthy probe
CalcHealthy(host, current) ==
    IF host.status # "ONLINE"
    THEN Result("ONLINE", NoneTs, TRUE)
    ELSE IF ~Truthy(host.last_seen)
         THEN Result(host.status, host.offline_since, TRUE)
         ELSE IF ParseFails(host.last_seen)
              THEN Result(host.status, host.offline_since, TRUE)
              ELSE Result(host.status, host.offline_since,
                          (current - fromisoformat(host.last_seen)) > HeartbeatThrottle)

\* CalculatedStatus with the offline threshold compared strictly
CalculatedStatusStrict(host, duration, cfg) ==
    IF duration > cfg.offline_timeout THEN "OFFLINE"
    ELSE IF duration >= cfg.waiting_timeout THEN "WAITING"
    ELSE host.status

\* CalculatedStatus moving one stage per call: OFFLINE only from WAITING
CalculatedStatusStepwise(host, duration, cfg) ==
    IF duration >= cfg.offline_timeout /\ host.status \in {"WAITING", "OFFLINE"}
    THEN "OFFLINE"
    ELSE IF duration >= cfg.waiting_timeout THEN "WAITING"
    ELSE host.status

\* lines 249-253
CalculatedStatus(host, duration, cfg) ==
    IF duration >= cfg.offline_timeout THEN "OFFLINE"
    ELSE IF duration >= cfg.waiting_timeout THEN "WAITING"
    ELSE host.status

\* lines 234-267: any other probe outcome
CalcUnhealthy(host, current, cfg) ==
    IF host.status = "MAINTENANCE"
    THEN Result(host.status, host.offline_since, FALSE)
    ELSE LET assigned == ~Truthy(host.offline_since)
             since    == IF assigned THEN isoformat(current) ELSE host.offline_since
         IN  IF ParseFails(since)
             THEN Result(host.status, isoformat(current), TRUE)
             ELSE LET duration   == current - fromisoformat(since)
                      calculated == CalculatedStatus(host, duration, cfg)
                  IN  Result(calculated, since,
                             assigned \/ calculated # host.status)

calculate_status(host, ping_status, current, cfg) ==
    IF ping_status = "ONLINE"
    THEN CalcHealthy(host, current)
    ELSE CalcUnhealthy(host, current, cfg)

----------------------------------------------------------------------------
(* HostRepository: the mutation each command applies to _hosts under the   *)
(* mutex, and the signals it emits after the mutex is released.            *)

Ids == {"h1", "h2"}

EmptyMap == [i \in {} |-> NoneTs]

Signal(name, id, old, new) ==
    [sig |-> name, id |-> id, old |-> old, new |-> new, changes |-> << >>]

\* hosts_batch_updated carries the list of (id, old status, new status)
BatchSignal(changes) ==
    [sig |-> "hosts_batch_updated", id |-> "", old |-> "", new |-> "",
     changes |-> changes]

\* add storing the host whether or not the id is present
add_overwriting(hs, host) ==
    [i \in DOMAIN hs \cup {host.id} |-> IF i = host.id THEN host ELSE hs[i]]

\* lines 141-145
add(hs, host) ==
    IF host.id \in DOMAIN hs THEN hs
    ELSE [i \in DOMAIN hs \cup {host.id} |-> IF i = host.id THEN host ELSE hs[i]]

\* lines 142-148
add_signals(hs, host) ==
    IF host.id \in DOMAIN hs THEN << >>
    ELSE << Signal("host_added", host.id, "", "") >>

\* lines 134-149: add has no return statement with a value, in both cases
\* the caller gets None
add_result(hs, host) == "None"

\* the truth value Python gives a returned value in "if repository.add(...)"
PyTruthy(v) == v \notin {"None", "False"}

\* HostManager.add_host, lines 28-31: TRUE when the success path is taken
add_host_succeeds(hs, host) == PyTruthy(add_result(hs, host))

\* lines 158-160
update(hs, host) ==
    [i \in DOMAIN hs \cup {host.id} |-> IF i = host.id THEN host ELSE hs[i]]

\* host_updated carries the old and the new record (line 164)
HostUpdated(id, old_host, new_host) ==
    [sig |-> "host_updated", id |-> id, old |-> old_host.status,
     new |-> new_host.status, changes |-> << >>,
     old_host |-> old_host, new_host |-> new_host]

\* update emitting host_updated with the new record in the place of the old
update_signals_without_old(hs, host) ==
    IF host.id \in DOMAIN hs
    THEN << HostUpdated(host.id, host, host) >>
    ELSE << Signal("host_added", host.id, "", "") >>

\* lines 163-173
update_signals(hs, host) ==
    IF host.id \in DOMAIN hs
    THEN << HostUpdated(host.id, hs[host.id], host) >>
         \o (IF hs[host.id].status # host.status
             THEN << Signal("status_changed", host.id, hs[host.id].status, host.status) >>
             ELSE << >>)
    ELSE << Signal("host_added", host.id, "", "") >>

\* lines 185-186
delete(hs, host_id) == [i \in DOMAIN hs \ {host_id} |-> hs[i]]

\* lines 188-192
delete_signals(hs, host_id) ==
    IF host_id \in DOMAIN hs
    THEN << Signal("host_deleted", host_id, hs[host_id].status, "") >>
    ELSE << >>

\* update_status clearing offline_since on every change of status
updated_host_reset_on_change(host, new_status, offline_since) ==
    [host EXCEPT !.status = new_status,
                 !.offline_since = IF new_status # host.status THEN NoneTs
                                   ELSE IF Truthy(offline_since) THEN offline_since
                                   ELSE host.offline_since,
                 !.notified = IF new_status = "ONLINE" THEN FALSE ELSE host.notified]

\* update_status without the reset of line 223-224
updated_host_no_reset(host, new_status, offline_since) ==
    [host EXCEPT !.status = new_status,
                 !.offline_since = IF Truthy(offline_since) THEN offline_since
                                   ELSE host.offline_since,
                 !.notified = IF new_status = "ONLINE" THEN FALSE ELSE host.notified]

\* lines 215-224: the record update_status stores for an existing host
updated_host(host, new_status, offline_since) ==
    LET replaced ==
          [host EXCEPT !.status = new_status,
                       !.offline_since = IF Truthy(offline_since) THEN offline_since
                                         ELSE host.offline_since,
                       !.notified = IF new_status = "ONLINE" THEN FALSE
                                    ELSE host.notified]
    IN  IF new_status = "ONLINE" /\ host.status # "ONLINE"
        THEN [replaced EXCEPT !.offline_since = NoneTs]
        ELSE replaced

\* update_status creating the record of an id that is not in the store
update_status_upsert(hs, host_id, new_status, offline_since) ==
    IF host_id \notin DOMAIN hs
    THEN add(hs, Host(host_id, "a", "ip", new_status, NoneTs, offline_since, FALSE, TRUE))
    ELSE [hs EXCEPT ![host_id] = updated_host(hs[host_id], new_status, offline_since)]

\* lines 206-226
update_status(hs, host_id, new_status, offline_since) ==
    IF host_id \notin DOMAIN hs THEN hs
    ELSE [hs EXCEPT ![host_id] = updated_host(hs[host_id], new_status, offline_since)]

\* update_status emitting status_changed for every write to an existing host
update_status_signals_always(hs, host_id, new_status) ==
    IF host_id \in DOMAIN hs
    THEN << Signal("status_changed", host_id, hs[host_id].status, new_status) >>
    ELSE << >>

\* lines 207-210, 229-230
update_status_signals(hs, host_id, new_status) ==
    IF host_id \in DOMAIN hs /\ hs[host_id].status # new_status
    THEN << Signal("status_changed", host_id, hs[host_id].status, new_status) >>
    ELSE << >>

\* lines 256-261: the record bulk_update_status stores for a changed host
bulk_updated_host(host, new_status, offline_since) ==
    [host EXCEPT !.status = new_status,
                 !.offline_since = IF new_status # "ONLINE" THEN offline_since
                                   ELSE NoneTs,
                 !.notified = IF new_status = "ONLINE" THEN FALSE ELSE host.notified]

RECURSIVE bulk_update_status(_, _)
\* lines 241-264; an entry is [id, status, offline_since]
bulk_update_status(hs, status_updates) ==
    IF status_updates = << >> THEN hs
    ELSE LET u == Head(status_updates)
         IN  IF u.id \notin DOMAIN hs \/ hs[u.id].status = u.status
             THEN bulk_update_status(hs, Tail(status_updates))
             ELSE bulk_update_status(
                      [hs EXCEPT ![u.id] = bulk_updated_host(hs[u.id], u.status,
                                                             u.offline_since)],
                      Tail(status_updates))

\* bulk_update_status listing every entry whose host exists
bulk_changes_with_noops(hs, status_updates) ==
    [k \in 1 .. Len(status_updates) |->
        <<status_updates[k].id, status_updates[k].status, status_updates[k].status>>]

RECURSIVE bulk_changes(_, _)
\* lines 239-264: the list changes
bulk_changes(hs, status_updates) ==
    IF status_updates = << >> THEN << >>
    ELSE LET u == Head(status_updates)
         IN  IF u.id \notin DOMAIN hs \/ hs[u.id].status = u.status
             THEN bulk_changes(hs, Tail(status_updates))
             ELSE << <<u.id, hs[u.id].status, u.status>> >>
                  \o bulk_changes(
                        [hs EXCEPT ![u.id] = bulk_updated_host(hs[u.id], u.status,
                                                               u.offline_since)],
                        Tail(status_updates))

\* lines 266-268
bulk_update_status_signals(hs, status_updates) ==
    IF bulk_changes(hs, status_updates) # << >>
    THEN << BatchSignal(bulk_changes(hs, status_updates)) >>
    ELSE << >>

\* The slot of MonitorThread.host_status_changed (emitted at line 156): the
\* connection is not part of the sources; section 4.4 of the specification
\* has the controller perform an individual updateStatus.
host_status_changed(hs, host_id, new_status, offline_since) ==
    update_status(hs, host_id, new_status, offline_since)

\* MonitorThread._check_host, lines 93-100: the outcome handed to the
\* calculator; ping is what PingService.ping_host answered
check_host(host, ping) ==
    IF host.status = "MAINTENANCE" THEN "MAINTENANCE"
    ELSE IF ping THEN "ONLINE" ELSE "OFFLINE"

----------------------------------------------------------------------------
(* DashboardManager and DashboardSubscriber: the per-status counters and   *)
(* the slots that keep them, one call per emitted signal.                  *)

\* HostRepository.get_stats, lines 105-110
get_stats(hs) ==
    [st \in Statuses |-> Cardinality({i \in DOMAIN hs : hs[i].status = st})]

\* DashboardManager.__init__, lines 30-35
NoStats == [st \in Statuses |-> 0]

\* DashboardManager.update_stats, line 50
update_stats(counts, stats_counts) == stats_counts

\* DashboardManager.increment_status, lines 60-61
increment_status(counts, status) ==
    IF status \in DOMAIN counts
    THEN [counts EXCEPT ![status] = @ + 1]
    ELSE counts

\* DashboardManager.decrement_status, lines 71-72
decrement_status(counts, status) ==
    IF status \in DOMAIN counts
    THEN [counts EXCEPT ![status] = IF @ - 1 > 0 THEN @ - 1 ELSE 0]
    ELSE counts

\* DashboardManager.update_status_transition, lines 83-86
update_status_transition(counts, old_status, new_status) ==
    increment_status(decrement_status(counts, old_status), new_status)

\* DashboardSubscriber._on_batch_updated, lines 77-78
RECURSIVE on_batch_updated(_, _)
on_batch_updated(counts, changes) ==
    IF changes = << >> THEN counts
    ELSE on_batch_updated(
            update_status_transition(counts, Head(changes)[2], Head(changes)[3]),
            Tail(changes))

\* DashboardSubscriber._on_host_added, lines 88-90: the host is read from
\* the store when the slot runs
dashboard_on_host_added(counts, hs, host_id) ==
    IF host_id \in DOMAIN hs
    THEN increment_status(counts, hs[host_id].status)
    ELSE counts

\* the slot DashboardSubscriber.__init__ (lines 43-47) connected to the
\* signal, run on the counters with the store as it is at that time;
\* host_updated has no slot
dashboard_slot(counts, hs, signal) ==
    CASE signal.sig = "status_changed" ->
            update_status_transition(counts, signal.old, signal.new)
      [] signal.sig = "hosts_loaded" -> update_stats(counts, get_stats(hs))
      [] signal.sig = "hosts_batch_updated" -> on_batch_updated(counts, signal.changes)
      [] signal.sig = "host_added" -> dashboard_on_host_added(counts, hs, signal.id)
      [] signal.sig = "host_deleted" -> decrement_status(counts, signal.old)
      [] OTHER -> counts

----------------------------------------------------------------------------
(* MonitorThread's configuration and thread pool                           *)

\* models.AppConfig, the fields the engine reads
AppConfig(w, o, mw) ==
    [waiting_timeout |-> w, offline_timeout |-> o, max_workers |-> mw]

\* AppConfig.__post_init__, lines 174-179
AppConfigAccepts(c) ==
    /\ MinWaitingTimeout <= c.waiting_timeout /\ c.waiting_timeout <= MaxWaitingTimeout
    /\ MinOfflineTimeout <= c.offline_timeout /\ c.offline_timeout <= MaxOfflineTimeout
    /\ MinMaxWorkers <= c.max_workers /\ c.max_workers <= MaxMaxWorkers

\* no Future: the host has not been submitted in this cycle
NoTasks == [i \in Ids |-> "none"]

NoAudit == [submitted |-> [i \in Ids |-> 0], written |-> [i \in Ids |-> 0]]

\* the specifications without a thread pool
PoolOff ==
    /\ config = AppConfig(DefaultWaitingTimeout, DefaultOfflineTimeout, MinMaxWorkers)
    /\ executor = [state |-> "none", cancel_futures |-> FALSE]
    /\ tasks = NoTasks
    /\ todo = << >>
    /\ stray = 0
    /\ audit = NoAudit

----------------------------------------------------------------------------
(* SpecCalc: _calculate_status on enumerated hosts, outcomes and times     *)

PingStatuses == {"ONLINE", "OFFLINE", "MAINTENANCE"}   \* _check_host, lines 93-100

CalcTimes == 0 .. MaxTime

CalcSince == {NoneTs, EmptyTs, BadTs}
             \cup {isoformat(t) : t \in CalcTimes}
             \cup {NaiveIso(t) : t \in CalcTimes}

CalcLastSeen == {NoneTs, BadTs, isoformat(0), isoformat(0 - 21), isoformat(0 - 61)}

NoResult == Result("ONLINE", NoneTs, FALSE)

IdleCalc == [phase |-> "idle", host |-> NewHost("1", "a", "ip", TRUE),
             ping_status |-> "ONLINE", current_time |-> 0,
             cfg |-> Config(LogicWaitingTimeout, LogicOfflineTimeout),
             result |-> NoResult, again |-> NoResult]

CalcInit ==
    /\ calc \in [phase : {"in"},
                 host : {Host("1", "a", "ip", s, ls, os, FALSE, TRUE) :
                            s \in Statuses, ls \in CalcLastSeen, os \in CalcSince},
                 ping_status : PingStatuses,
                 current_time : CalcTimes,
                 cfg : {Config(LogicWaitingTimeout, LogicOfflineTimeout)},
                 result : {NoResult},
                 again : {NoResult}]
    /\ hosts = EmptyMap
    /\ now = 0
    /\ hist = << >>
    /\ threads = << >>
    /\ emitted = << >>
    /\ mutations = 0
    /\ lastCall = << >>
    /\ pc = "off"
    /\ snapshot = << >>
    /\ futures = {}
    /\ newly_offline = << >>
    /\ current_time = 0
    /\ interrupt_flag = FALSE
    /\ force_scan_flag = FALSE
    /\ running = FALSE
    /\ elapsed_wait = 0
    /\ dialog = NoDialog
    /\ unused = {}
    /\ mutex = "free"
    /\ dashboard = NoStats
    /\ PoolOff

Calculate ==
    /\ calc.phase = "in"
    /\ calc' = [calc EXCEPT !.phase = "out",
                            !.result = calculate_status(calc.host, calc.ping_status,
                                                        calc.current_time, calc.cfg)]
    /\ UNCHANGED <<hosts, now, hist, dialog, unused>>
    /\ UNCHANGED storeVars
    /\ UNCHANGED ctlVars
    /\ UNCHANGED poolVars
    /\ UNCHANGED dashboard

\* the host with the returned status and offline_since put in
applied(host, r) ==
    [host EXCEPT !.status = r.new_status, !.offline_since = r.offline_since]

\* _calculate_status called a second time, on the host the first result was
\* applied to, with the same ping_status and current_time
CalculateAgain ==
    /\ calc.phase = "out"
    /\ calc' = [calc EXCEPT !.phase = "again",
                            !.again = calculate_status(applied(calc.host, calc.result),
                                                       calc.ping_status,
                                                       calc.current_time, calc.cfg)]
    /\ UNCHANGED <<hosts, now, hist, dialog, unused>>
    /\ UNCHANGED storeVars
    /\ UNCHANGED ctlVars
    /\ UNCHANGED poolVars
    /\ UNCHANGED dashboard

CalcNext == Calculate \/ CalculateAgain

SpecCalc == CalcInit /\ [][CalcNext]_vars

CalcDone == calc.phase = "out"

\* C3: for a host that is not in MAINTENANCE and a probe outcome that is not
\* healthy, with elapsed = now - unhealthySince (0 when unhealthySince was
\* unset or unreadable and is assigned now), the calculator returns OFFLINE
\* when elapsed >= offline_timeout, WAITING when waiting_timeout <= elapsed <
\* offline_timeout and the current status otherwise; shouldPersist is true
\* exactly when unhealthySince was just assigned or the status changed.  With
\* timeouts 5 and 30, an ONLINE host failing at 0, 10 and 40 goes ONLINE with
\* unhealthySince = 0, then WAITING, then OFFLINE.
C3_JustAssigned == ~Truthy(calc.host.offline_since) \/ ParseFails(calc.host.offline_since)

C3_Elapsed == IF C3_JustAssigned THEN 0
              ELSE calc.current_time - calc.host.offline_since.t

C3_Target ==
    IF C3_Elapsed >= calc.cfg.offline_timeout THEN "OFFLINE"
    ELSE IF calc.cfg.waiting_timeout <= C3_Elapsed /\ C3_Elapsed < calc.cfg.offline_timeout
         THEN "WAITING"
         ELSE calc.host.status

C3_ScenarioA ==
    /\ (calc.host.status = "ONLINE" /\ calc.host.offline_since = NoneTs
        /\ calc.current_time = 0)
       => (calc.result.new_status = "ONLINE"
           /\ calc.result.offline_since = isoformat(0)
           /\ calc.result.should_update)
    /\ (calc.host.status = "ONLINE" /\ calc.host.offline_since = isoformat(0)
        /\ calc.current_time = 10)
       => calc.result.new_status = "WAITING"
    /\ (calc.host.status = "WAITING" /\ calc.host.offline_since = isoformat(0)
        /\ calc.current_time = 40)
       => calc.result.new_status = "OFFLINE"

C3_StagedByElapsed ==
    (CalcDone /\ calc.host.status # "MAINTENANCE" /\ calc.ping_status # "ONLINE")
    => /\ calc.result.new_status = C3_Target
       /\ calc.result.should_update
            = (C3_JustAssigned \/ calc.result.new_status # calc.host.status)
       /\ C3_JustAssigned => calc.result.offline_since = isoformat(calc.current_time)
       /\ C3_ScenarioA

\* C3 witness: the last step of scenario A, a WAITING host unhealthy since 0
\* that fails again at 40 and is returned OFFLINE
C3_Witness ==
    /\ CalcDone
    /\ calc.ping_status = "OFFLINE"
    /\ calc.host.status = "WAITING"
    /\ calc.host.offline_since = isoformat(0)
    /\ calc.current_time = 40
    /\ calc.result.new_status = "OFFLINE"
    /\ calc.result.should_update

\* C4: for a WAITING or OFFLINE host, whatever its unhealthySince (an
\* unreadable one included), a healthy probe is answered with status ONLINE,
\* unhealthySince = null and shouldPersist = true.
C4_RecoveryIsImmediate ==
    (CalcDone /\ calc.host.status \in {"WAITING", "OFFLINE"}
     /\ calc.ping_status = "ONLINE")
    => calc.result = Result("ONLINE", NoneTs, TRUE)

\* C4 witness: an OFFLINE host with an unreadable unhealthySince recovers
C4_Witness ==
    /\ CalcDone
    /\ calc.host.status = "OFFLINE"
    /\ calc.host.offline_since = BadTs
    /\ calc.ping_status = "ONLINE"
    /\ calc.result.new_status = "ONLINE"

\* C5: for a MAINTENANCE host, every probe outcome (healthy, unhealthy or
\* error) and every now, the calculator returns status MAINTENANCE, the
\* host's unhealthySince unchanged and shouldPersist = false.
C5_MaintenanceIgnoresProbe ==
    (CalcDone /\ calc.host.status = "MAINTENANCE")
    => calc.result = Result("MAINTENANCE", calc.host.offline_since, FALSE)

\* C24: for an ONLINE host and a healthy probe the calculator keeps ONLINE
\* and asks for a write exactly when last_seen is unset or unreadable or lies
\* more than 60 seconds before now.
C24_HeartbeatThrottle ==
    (calc.phase = "out" /\ calc.host.status = "ONLINE" /\ calc.ping_status = "ONLINE")
    => /\ calc.result.new_status = "ONLINE"
       /\ calc.result.should_update
          <=> \/ calc.host.last_seen.kind \in {"none", "empty", "bad"}
              \/ calc.current_time - calc.host.last_seen.t > 60

\* C24 witness: last_seen is 61 seconds before now and a write is asked for
C24_Witness ==
    /\ calc.phase = "out"
    /\ calc.host.status = "ONLINE"
    /\ calc.ping_status = "ONLINE"
    /\ calc.host.last_seen.kind = "iso"
    /\ calc.current_time - calc.host.last_seen.t = 61
    /\ calc.result.should_update

\* C25: the status and offline_since returned for the host the first result
\* was applied to, with the same probe outcome and the same now, are the
\* status and offline_since returned the first time.
C25_CalculateIsIdempotent ==
    calc.phase = "again"
    => /\ calc.again.new_status = calc.result.new_status
       /\ calc.again.offline_since = calc.result.offline_since

\* C25 witness: a failing ONLINE host past the offline threshold is OFFLINE
\* after the first call and stays so in the second, which asks for no write
C25_Witness ==
    /\ calc.phase = "again"
    /\ calc.host.status = "ONLINE"
    /\ calc.result.new_status = "OFFLINE"
    /\ calc.result.should_update
    /\ ~calc.again.should_update

----------------------------------------------------------------------------
(* SpecSeq: one host, probed cycle after cycle; every cycle reads the      *)
(* host from the store, probes it, runs the calculator and writes the      *)
(* result when should_update says so (run, lines 122-156).                 *)

SeqId == "h1"

SeqConfig == Config(WaitingTimeout, OfflineTimeout)

\* write and before: the times of the last two writes issued for the host
\* while it stayed ONLINE with healthy probes only, -1 where there is none
NoHist == [prev |-> "none", last |-> "none", at |-> 0, first |-> -1,
           write |-> -1, before |-> -1]

SeqInit ==
    /\ hosts = add(EmptyMap, NewHost(SeqId, "a", "ip", TRUE))
    /\ now = 0
    /\ hist = NoHist
    /\ calc = IdleCalc
    /\ threads = << >>
    /\ emitted = << >>
    /\ mutations = 0
    /\ lastCall = << >>
    /\ pc = "off"
    /\ snapshot = << >>
    /\ futures = {}
    /\ newly_offline = << >>
    /\ current_time = 0
    /\ interrupt_flag = FALSE
    /\ force_scan_flag = FALSE
    /\ running = FALSE
    /\ elapsed_wait = 0
    /\ dialog = NoDialog
    /\ unused = {}
    /\ mutex = "free"
    /\ dashboard = NoStats
    /\ PoolOff

\* one whole cycle for the host: ping is the answer of the probe
SeqCycle(ping) ==
    LET host   == hosts[SeqId]
        status == check_host(host, ping)
        r      == calculate_status(host, status, now, SeqConfig)
    IN  /\ hosts' = IF r.should_update
                    THEN host_status_changed(hosts, SeqId, r.new_status, r.offline_since)
                    ELSE hosts
        /\ hist' = [prev  |-> hist.last,
                    last  |-> status,
                    at    |-> now,
                    first |-> IF status = "ONLINE" THEN -1
                              ELSE IF hist.last = "OFFLINE" THEN hist.first
                              ELSE now,
                    write |-> IF status = "ONLINE" /\ host.status = "ONLINE"
                              THEN IF r.should_update THEN now ELSE hist.write
                              ELSE -1,
                    before |-> IF status = "ONLINE" /\ host.status = "ONLINE"
                               THEN IF r.should_update THEN hist.write
                                    ELSE hist.before
                               ELSE -1]
        /\ UNCHANGED <<now, calc, dialog, unused>>
        /\ UNCHANGED storeVars
        /\ UNCHANGED ctlVars
        /\ UNCHANGED poolVars
        /\ UNCHANGED dashboard

SeqTick ==
    /\ now < MaxSeqTime
    /\ now' = now + 1
    /\ UNCHANGED <<hosts, calc, hist, dialog, unused>>
    /\ UNCHANGED storeVars
    /\ UNCHANGED ctlVars
    /\ UNCHANGED poolVars
    /\ UNCHANGED dashboard

SeqNext ==
    \/ \E ping \in BOOLEAN : SeqCycle(ping)
    \/ SeqTick

SpecSeq == SeqInit /\ [][SeqNext]_vars

\* C2: a single failed probe that directly follows a healthy probe never
\* changes the status: after healthy-then-failed the host is still ONLINE
\* and its unhealthy_since is the time of that failed probe.
C2_SingleFailureKeepsOnline ==
    (hist.prev = "ONLINE" /\ hist.last = "OFFLINE")
    => /\ hosts[SeqId].status = "ONLINE"
       /\ hosts[SeqId].offline_since = isoformat(hist.at)

\* C6: during one degradation episode (an unbroken run of failed probes
\* whose results are written) the stored unhealthy_since is the time of the
\* episode's first failure and later failures never move it to an earlier
\* time; it becomes null exactly at the step at which the status returns to
\* ONLINE.
C6_EpisodeStep ==
    /\ (hist'.last = "OFFLINE")
       => hosts'[SeqId].offline_since = isoformat(hist'.first)
    /\ (hist.last = "OFFLINE" /\ hist'.last = "OFFLINE")
       => /\ hosts[SeqId].offline_since.kind = "iso"
          /\ hosts'[SeqId].offline_since.t >= hosts[SeqId].offline_since.t
    /\ (hosts[SeqId].offline_since # NoneTs /\ hosts'[SeqId].offline_since = NoneTs)
       <=> (hosts[SeqId].status # "ONLINE" /\ hosts'[SeqId].status = "ONLINE")

C6_UnhealthySinceOfEpisode == [][C6_EpisodeStep]_vars

\* C23: while the host stays ONLINE and every probe is healthy, two
\* consecutive writes issued for it are more than the 60 seconds of the
\* throttle apart.
C23_HealthyWritesThrottled ==
    (hist.write >= 0 /\ hist.before >= 0) => hist.write - hist.before > 60

----------------------------------------------------------------------------
(* SpecStore: threads calling the store concurrently.  A call applies its  *)
(* mutation inside "with QMutexLocker(self._mutex)" (one atomic step) and  *)
(* emits its signals afterwards, outside the lock, one emit per step.      *)

Threads == {"t1", "t2"}

StoreSince == {NoneTs, isoformat(1)}

\* hosts handed to add: new records with the dataclass defaults
AddedHosts == {NewHost(id, "a", "ip", TRUE) : id \in Ids}

\* hosts handed to update: edited records
UpdatedHosts == {Host(id, "b", "ip", "ONLINE", NoneTs, NoneTs, FALSE, TRUE) : id \in Ids}
                \cup {Host(id, "b", "ip", "OFFLINE", NoneTs, isoformat(1), FALSE, TRUE) :
                         id \in Ids}

Entries == [id : Ids, status : {"ONLINE", "OFFLINE"}, offline_since : {isoformat(1)}]

Batches == {<<e>> : e \in Entries} \cup {<<e, f>> : e \in Entries, f \in Entries}

NoCall == [op |-> "none", id |-> "", status |-> "", offline_since |-> NoneTs,
           existed |-> FALSE, old_status |-> "", old_since |-> NoneTs]

Called(op, id, status, since) ==
    [op |-> op, id |-> id, status |-> status, offline_since |-> since,
     existed |-> id \in DOMAIN hosts,
     old_status |-> IF id \in DOMAIN hosts THEN hosts[id].status ELSE "",
     old_since |-> IF id \in DOMAIN hosts THEN hosts[id].offline_since ELSE NoneTs]

\* the signals of the n-th mutation, tagged with n
Tagged(signals, n) == [i \in 1 .. Len(signals) |-> [n |-> n, signal |-> signals[i]]]

StoreInit ==
    /\ hosts = EmptyMap
    /\ threads = [t \in Threads |-> << >>]
    /\ emitted = << >>
    /\ mutations = 0
    /\ lastCall = NoCall
    /\ now = 0
    /\ calc = IdleCalc
    /\ hist = NoHist
    /\ pc = "off"
    /\ snapshot = << >>
    /\ futures = {}
    /\ newly_offline = << >>
    /\ current_time = 0
    /\ interrupt_flag = FALSE
    /\ force_scan_flag = FALSE
    /\ running = FALSE
    /\ elapsed_wait = 0
    /\ dialog = NoDialog
    /\ unused = {}
    /\ mutex = "free"
    /\ dashboard = NoStats
    /\ PoolOff

\* the part every call shares: thread t is between calls, the mutation is
\* applied and its signals are left for t to emit
Mutate(t, newHosts, signals, call) ==
    /\ threads[t] = << >>
    /\ mutations < MaxMutations
    /\ hosts' = newHosts
    /\ mutations' = mutations + 1
    /\ threads' = [threads EXCEPT ![t] = Tagged(signals, mutations + 1)]
    /\ lastCall' = call
    /\ UNCHANGED <<emitted, now, calc, hist, dialog, unused, mutex>>
    /\ UNCHANGED ctlVars
    /\ UNCHANGED poolVars
    /\ UNCHANGED dashboard

CallAdd(t, host) ==
    Mutate(t, add(hosts, host), add_signals(hosts, host),
           Called("add", host.id, host.status, host.offline_since))

CallUpdate(t, host) ==
    Mutate(t, update(hosts, host), update_signals(hosts, host),
           Called("update", host.id, host.status, host.offline_since))

CallDelete(t, id) ==
    Mutate(t, delete(hosts, id), delete_signals(hosts, id),
           Called("delete", id, "", NoneTs))

CallUpdateStatus(t, id, status, since) ==
    Mutate(t, update_status(hosts, id, status, since),
           update_status_signals(hosts, id, status),
           Called("update_status", id, status, since))

CallBulkUpdateStatus(t, batch) ==
    Mutate(t, bulk_update_status(hosts, batch),
           bulk_update_status_signals(hosts, batch),
           Called("bulk_update_status", "", "", NoneTs))

\* signal.emit(...) after the lock is released
Emit(t) ==
    /\ threads[t] # << >>
    /\ emitted' = Append(emitted, Head(threads[t]))
    /\ threads' = [threads EXCEPT ![t] = Tail(threads[t])]
    /\ dashboard' = dashboard_slot(dashboard, hosts, Head(threads[t]).signal)
    /\ UNCHANGED <<hosts, mutations, lastCall, now, calc, hist, dialog, unused, mutex>>
    /\ UNCHANGED ctlVars
    /\ UNCHANGED poolVars

StoreNext ==
    \E t \in Threads :
        \/ \E host \in AddedHosts : CallAdd(t, host)
        \/ \E host \in UpdatedHosts : CallUpdate(t, host)
        \/ \E id \in Ids : CallDelete(t, id)
        \/ \E id \in Ids, status \in Statuses, since \in StoreSince :
              CallUpdateStatus(t, id, status, since)
        \/ \E batch \in Batches : CallBulkUpdateStatus(t, batch)
        \/ Emit(t)

SpecStore == StoreInit /\ [][StoreNext]_vars

\* C8: after update_status(id, ONLINE, unhealthySince) on an existing host
\* the stored unhealthy_since of that host is null, whatever the previous
\* status (ONLINE included) and the previous and passed unhealthy_since.
C8_OnlineAlwaysClears ==
    (lastCall.op = "update_status" /\ lastCall.status = "ONLINE" /\ lastCall.existed)
    => hosts[lastCall.id].offline_since = NoneTs

\* C8 as amended: after update_status(id, ONLINE, unhealthySince) on an
\* existing host the stored unhealthy_since is null when the previous status
\* was not ONLINE; when the host was already ONLINE it is the passed value if
\* one was passed and the previous value otherwise.
C8_OnlineClearsOnTransition ==
    (lastCall.op = "update_status" /\ lastCall.status = "ONLINE" /\ lastCall.existed)
    => hosts[lastCall.id].offline_since =
          (IF lastCall.old_status # "ONLINE" THEN NoneTs
           ELSE IF lastCall.offline_since # NoneTs THEN lastCall.offline_since
           ELSE lastCall.old_since)

\* C8 witness: an OFFLINE host with an unhealthy_since was written ONLINE
\* with a timestamp passed, and its unhealthy_since is null
C8_Witness ==
    /\ lastCall.op = "update_status"
    /\ lastCall.status = "ONLINE"
    /\ lastCall.existed
    /\ lastCall.old_status = "OFFLINE"
    /\ lastCall.old_since # NoneTs
    /\ lastCall.offline_since # NoneTs
    /\ hosts[lastCall.id].status = "ONLINE"
    /\ hosts[lastCall.id].offline_since = NoneTs

\* C10: observers receive the events in the order in which the mutations
\* were applied to the host map: of two mutations, the event of the one
\* applied first is delivered first.
C10_EventsInMutationOrder ==
    \A i \in 1 .. Len(emitted) : \A j \in 1 .. Len(emitted) :
        i < j => emitted[i].n <= emitted[j].n

\* C30: once every emitted signal has been handled by the slots of the
\* DashboardSubscriber, the counters of the dashboard are the per-status
\* counts get_stats computes from the store.
C30_CountersFollowStore ==
    (\A t \in Threads : threads[t] = << >>) => dashboard = get_stats(hosts)

----------------------------------------------------------------------------
(* SpecLock: the store calls step by step.  A caller waits for the mutex,  *)
(* runs the body of its "with QMutexLocker(self._mutex)" block while it    *)
(* holds it (bulk_update_status one entry of the batch per step), leaves   *)
(* the block and then emits; a slot connected to the signal runs in the    *)
(* emitting caller and calls the store again.                              *)

\* QMutexLocker.__init__: the mutex can be taken when nobody holds it
try_lock_unguarded(holder) == TRUE

try_lock(holder) == holder = "free"

\* QMutexLocker.__exit__ at the end of the with block
unlock_after_emit(holder) == holder

unlock(holder) == "free"

\* lines 278-279
load(hs, host_list) ==
    [i \in {host_list[k].id : k \in 1 .. Len(host_list)} |->
        LET k == CHOOSE k \in 1 .. Len(host_list) :
                    /\ host_list[k].id = i
                    /\ \A j \in k + 1 .. Len(host_list) : host_list[j].id # i
        IN  host_list[k]]

\* line 281
load_signals(hs, host_list) == << Signal("hosts_loaded", "", "", "") >>

\* lines 286-288
clear(hs) == EmptyMap

LockEntries == [id : Ids, status : {"OFFLINE"}, offline_since : {isoformat(1)}]

LockCall(op, host, id, status, batch) ==
    [op |-> op, host |-> host, id |-> id, status |-> status, batch |-> batch]

\* the calls the callers of SpecLock make
LockCalls ==
    {LockCall("add", NewHost("h1", "a", "ip", TRUE), "", "", << >>),
     LockCall("update", Host("h1", "b", "ip", "WAITING", NoneTs, isoformat(1), FALSE, TRUE),
              "", "", << >>),
     LockCall("delete", NoDialog.host, "h1", "", << >>),
     LockCall("update_status", NoDialog.host, "h1", "MAINTENANCE", << >>),
     LockCall("load", NoDialog.host, "", "",
              << NewHost("h1", "a", "ip", TRUE), NewHost("h2", "a", "ip", TRUE) >>)}
    \cup {LockCall("bulk_update_status", NoDialog.host, "", "", <<e, f>>) :
             e \in LockEntries, f \in LockEntries}

\* what the body of the with block does to _hosts for a call other than
\* bulk_update_status
LockApply(hs, c) ==
    CASE c.op = "add" -> add(hs, c.host)
      [] c.op = "update" -> update(hs, c.host)
      [] c.op = "delete" -> delete(hs, c.id)
      [] c.op = "update_status" -> update_status(hs, c.id, c.status, NoneTs)
      [] c.op = "load" -> load(hs, c.batch)

\* the signals the call emits after the block
LockSignals(hs, c) ==
    CASE c.op = "add" -> add_signals(hs, c.host)
      [] c.op = "update" -> update_signals(hs, c.host)
      [] c.op = "delete" -> delete_signals(hs, c.id)
      [] c.op = "update_status" -> update_status_signals(hs, c.id, c.status)
      [] c.op = "load" -> load_signals(hs, c.batch)

IdleFrame ==
    [pos |-> "idle", call |-> LockCall("none", NoDialog.host, "", "", << >>),
     todo |-> << >>, done |-> 0, changes |-> << >>, signals |-> << >>]

\* the bulk_update_status calls in progress, as <<entries processed, entries>>
BulkProgress ==
    {<<threads[t].done, Len(threads[t].call.batch)>> :
        t \in {u \in Threads : /\ threads[u].pos # "idle"
                               /\ threads[u].call.op = "bulk_update_status"}}

\* ghost record of a read: what it returned and the bulk calls in progress
Observed(op, value, nested) ==
    [op |-> op, value |-> value, nested |-> nested, progress |-> BulkProgress]

LockInit ==
    /\ hosts = add(EmptyMap, NewHost("h2", "a", "ip", TRUE))
    /\ threads = [t \in Threads |-> IdleFrame]
    /\ emitted = << >>
    /\ mutations = 0
    /\ lastCall = [op |-> "none", value |-> EmptyMap, nested |-> FALSE, progress |-> {}]
    /\ mutex = "free"
    /\ dashboard = NoStats
    /\ PoolOff
    /\ now = 0
    /\ calc = IdleCalc
    /\ hist = NoHist
    /\ pc = "off"
    /\ snapshot = << >>
    /\ futures = {}
    /\ newly_offline = << >>
    /\ current_time = 0
    /\ interrupt_flag = FALSE
    /\ force_scan_flag = FALSE
    /\ running = FALSE
    /\ elapsed_wait = 0
    /\ dialog = NoDialog
    /\ unused = {}

LockFrame == <<now, calc, hist, dialog, unused>>

\* the caller enters a store method
LockBegin(t, c) ==
    /\ threads[t].pos = "idle"
    /\ mutations < MaxCalls
    /\ mutations' = mutations + 1
    /\ threads' = [threads EXCEPT ![t] =
                      [IdleFrame EXCEPT !.pos = "waiting", !.call = c,
                                        !.todo = IF c.op = "bulk_update_status"
                                                 THEN c.batch ELSE << c >>]]
    /\ UNCHANGED <<hosts, emitted, lastCall, mutex>>
    /\ UNCHANGED LockFrame
    /\ UNCHANGED ctlVars
    /\ UNCHANGED poolVars
    /\ UNCHANGED dashboard

\* with QMutexLocker(self._mutex):
LockAcquire(t) ==
    /\ threads[t].pos = "waiting"
    /\ try_lock(mutex)
    /\ mutex' = t
    /\ threads' = [threads EXCEPT ![t].pos = "locked"]
    /\ UNCHANGED <<hosts, emitted, lastCall, mutations>>
    /\ UNCHANGED LockFrame
    /\ UNCHANGED ctlVars
    /\ UNCHANGED poolVars
    /\ UNCHANGED dashboard

\* one step of the body of the block: the whole body, or one entry of the
\* batch of bulk_update_status (lines 242-264)
LockBody(t) ==
    /\ threads[t].pos = "locked"
    /\ threads[t].todo # << >>
    /\ LET f == threads[t]
           e == Head(f.todo)
       IN  IF f.call.op = "bulk_update_status"
           THEN /\ hosts' = bulk_update_status(hosts, << e >>)
                /\ threads' = [threads EXCEPT ![t] =
                                  [f EXCEPT !.todo = Tail(f.todo),
                                            !.done = f.done + 1,
                                            !.changes = f.changes
                                                \o bulk_changes(hosts, << e >>)]]
           ELSE /\ hosts' = LockApply(hosts, f.call)
                /\ threads' = [threads EXCEPT ![t] =
                                  [f EXCEPT !.todo = << >>,
                                            !.done = 1,
                                            !.signals = LockSignals(hosts, f.call)]]
    /\ UNCHANGED <<emitted, lastCall, mutations, mutex>>
    /\ UNCHANGED LockFrame
    /\ UNCHANGED ctlVars
    /\ UNCHANGED poolVars
    /\ UNCHANGED dashboard

\* the end of the with block
LockRelease(t) ==
    /\ threads[t].pos = "locked"
    /\ threads[t].todo = << >>
    /\ mutex' = unlock(mutex)
    /\ threads' = [threads EXCEPT ![t] =
                      [threads[t] EXCEPT
                          !.pos = "emitting",
                          !.signals = IF threads[t].call.op = "bulk_update_status"
                                      THEN IF threads[t].changes # << >>
                                           THEN << BatchSignal(threads[t].changes) >>
                                           ELSE << >>
                                      ELSE threads[t].signals]]
    /\ UNCHANGED <<hosts, emitted, lastCall, mutations>>
    /\ UNCHANGED LockFrame
    /\ UNCHANGED ctlVars
    /\ UNCHANGED poolVars
    /\ UNCHANGED dashboard

\* signal.emit(...): the connected slot starts to run in the caller
LockEmit(t) ==
    /\ threads[t].pos = "emitting"
    /\ threads[t].signals # << >>
    /\ emitted' = Append(emitted, [sig |-> Head(threads[t].signals).sig,
                                   held |-> mutex = t])
    /\ threads' = [threads EXCEPT ![t].pos = "handler"]
    /\ UNCHANGED <<hosts, lastCall, mutations, mutex>>
    /\ UNCHANGED LockFrame
    /\ UNCHANGED ctlVars
    /\ UNCHANGED poolVars
    /\ UNCHANGED dashboard

\* the slot reads the store (get_all, lines 70-71) and returns
HandlerRead(t) ==
    /\ threads[t].pos = "handler"
    /\ try_lock(mutex)
    /\ lastCall' = Observed("get_all", hosts, TRUE)
    /\ threads' = [threads EXCEPT ![t].pos = "emitting",
                                  ![t].signals = Tail(threads[t].signals)]
    /\ UNCHANGED <<hosts, emitted, mutations, mutex>>
    /\ UNCHANGED LockFrame
    /\ UNCHANGED ctlVars
    /\ UNCHANGED poolVars
    /\ UNCHANGED dashboard

\* the slot writes the store (delete, lines 185-189) and returns
HandlerWrite(t, id) ==
    /\ threads[t].pos = "handler"
    /\ try_lock(mutex)
    /\ hosts' = delete(hosts, id)
    /\ emitted' = emitted \o [k \in 1 .. Len(delete_signals(hosts, id)) |->
                                 [sig |-> delete_signals(hosts, id)[k].sig,
                                  held |-> FALSE]]
    /\ threads' = [threads EXCEPT ![t].pos = "emitting",
                                  ![t].signals = Tail(threads[t].signals)]
    /\ UNCHANGED <<lastCall, mutations, mutex>>
    /\ UNCHANGED LockFrame
    /\ UNCHANGED ctlVars
    /\ UNCHANGED poolVars
    /\ UNCHANGED dashboard

\* the store method returns
LockReturn(t) ==
    /\ threads[t].pos = "emitting"
    /\ threads[t].signals = << >>
    /\ threads' = [threads EXCEPT ![t] = IdleFrame]
    /\ UNCHANGED <<hosts, emitted, lastCall, mutations, mutex>>
    /\ UNCHANGED LockFrame
    /\ UNCHANGED ctlVars
    /\ UNCHANGED poolVars
    /\ UNCHANGED dashboard

\* a reader between its own calls: get_all (lines 70-71) or get_stats
\* (lines 105-110); the read takes and leaves the mutex within the step
LockRead(t, op) ==
    /\ threads[t].pos = "idle"
    /\ try_lock(mutex)
    /\ lastCall' = Observed(op, IF op = "get_all" THEN hosts ELSE get_stats(hosts),
                            FALSE)
    /\ UNCHANGED <<hosts, threads, emitted, mutations, mutex>>
    /\ UNCHANGED LockFrame
    /\ UNCHANGED ctlVars
    /\ UNCHANGED poolVars
    /\ UNCHANGED dashboard

LockNext ==
    \E t \in Threads :
        \/ \E c \in LockCalls : LockBegin(t, c)
        \/ LockAcquire(t)
        \/ LockBody(t)
        \/ LockRelease(t)
        \/ LockEmit(t)
        \/ HandlerRead(t)
        \/ \E id \in Ids : HandlerWrite(t, id)
        \/ LockReturn(t)
        \/ \E op \in {"get_all", "get_stats"} : LockRead(t, op)

SpecLock == LockInit /\ [][LockNext]_vars

\* C11: no signal is emitted while the emitting caller holds the mutex, and
\* a slot that runs for a signal never finds the mutex held by its own
\* caller, so its store call can take it.
C11_EmitOutsideLock ==
    /\ \A k \in 1 .. Len(emitted) : ~emitted[k].held
    /\ \A t \in Threads : threads[t].pos = "handler" => mutex # t

\* a slot has called get_all from inside the emission and got the store
C11_Witness ==
    /\ lastCall.op = "get_all"
    /\ lastCall.nested
    /\ Len(emitted) > 0

\* C12: a read that runs while a bulk_update_status call is in progress
\* sees none or all of the entries of its batch applied.
C12_BulkIsAtomicForReaders ==
    lastCall.op \in {"get_all", "get_stats"}
    => \A p \in lastCall.progress : p[1] = 0 \/ p[1] = p[2]

\* a read ran while a two-entry bulk_update_status call was in progress and
\* saw both hosts OFFLINE
C12_Witness ==
    /\ lastCall.op = "get_all"
    /\ ~lastCall.nested
    /\ \E p \in lastCall.progress : p[1] = p[2] /\ p[2] > 1
    /\ \A i \in DOMAIN lastCall.value : lastCall.value[i].status = "OFFLINE"
    /\ DOMAIN lastCall.value = Ids

----------------------------------------------------------------------------
(* SpecOps: one caller, one store call after the other.  lastCall keeps    *)
(* the arguments of the last call, the store before it, the signals it     *)
(* emitted and what it returned.                                           *)

MaxBatch == 3

\* hosts handed to add and update
OpsHosts ==
    {NewHost(id, "a", "ip", TRUE) : id \in Ids}
    \cup {Host(id, "c", "ip", st, NoneTs, isoformat(2), FALSE, FALSE) :
             id \in Ids, st \in {"ONLINE", "OFFLINE"}}

\* lists handed to load
OpsLists ==
    {<< >>, << NewHost("h1", "a", "ip", TRUE) >>,
     << NewHost("h1", "a", "ip", TRUE), NewHost("h2", "a", "ip", TRUE) >>}

OpsStatuses == {"ONLINE", "OFFLINE", "MAINTENANCE"}

OpsEntries == [id : Ids, status : {"ONLINE", "OFFLINE"}, offline_since : {isoformat(1)}]

RECURSIVE OpsBatchesOf(_)
\* the batches of exactly n entries
OpsBatchesOf(n) ==
    IF n = 0 THEN {<< >>}
    ELSE {<<e>> \o b : e \in OpsEntries, b \in OpsBatchesOf(n - 1)}

OpsBatches == UNION {OpsBatchesOf(n) : n \in 1 .. MaxBatch}

OpsCall(op, host, id, status, since, batch, signals, result) ==
    [op |-> op, host |-> host, id |-> id, status |-> status,
     offline_since |-> since, batch |-> batch, before |-> hosts,
     signals |-> signals, result |-> result]

\* no call is being looked at
OpsIdle ==
    [op |-> "none", host |-> NoDialog.host, id |-> "", status |-> "",
     offline_since |-> NoneTs, batch |-> << >>, before |-> EmptyMap,
     signals |-> << >>, result |-> "None"]

OpsInit ==
    /\ hosts = EmptyMap
    /\ lastCall = OpsIdle
    /\ threads = << >>
    /\ emitted = << >>
    /\ mutations = 0
    /\ mutex = "free"
    /\ dashboard = NoStats
    /\ PoolOff
    /\ now = 0
    /\ calc = IdleCalc
    /\ hist = NoHist
    /\ pc = "off"
    /\ snapshot = << >>
    /\ futures = {}
    /\ newly_offline = << >>
    /\ current_time = 0
    /\ interrupt_flag = FALSE
    /\ force_scan_flag = FALSE
    /\ running = FALSE
    /\ elapsed_wait = 0
    /\ dialog = NoDialog
    /\ unused = {}

OpsFrame == <<now, calc, hist, dialog, unused, threads, emitted, mutations, mutex>>

OpAdd(host) ==
    /\ lastCall.op = "none"
    /\ hosts' = add(hosts, host)
    /\ lastCall' = OpsCall("add", host, host.id, "", NoneTs, << >>,
                           add_signals(hosts, host),
                           IF add_host_succeeds(hosts, host) THEN "True" ELSE "False")
    /\ UNCHANGED OpsFrame
    /\ UNCHANGED ctlVars
    /\ UNCHANGED poolVars
    /\ UNCHANGED dashboard

OpUpdate(host) ==
    /\ lastCall.op = "none"
    /\ hosts' = update(hosts, host)
    /\ lastCall' = OpsCall("update", host, host.id, "", NoneTs, << >>,
                           update_signals(hosts, host), "None")
    /\ UNCHANGED OpsFrame
    /\ UNCHANGED ctlVars
    /\ UNCHANGED poolVars
    /\ UNCHANGED dashboard

OpDelete(id) ==
    /\ lastCall.op = "none"
    /\ hosts' = delete(hosts, id)
    /\ lastCall' = OpsCall("delete", NoDialog.host, id, "", NoneTs, << >>,
                           delete_signals(hosts, id),
                           IF id \in DOMAIN hosts THEN "True" ELSE "False")
    /\ UNCHANGED OpsFrame
    /\ UNCHANGED ctlVars
    /\ UNCHANGED poolVars
    /\ UNCHANGED dashboard

OpUpdateStatus(id, status, since) ==
    /\ lastCall.op = "none"
    /\ hosts' = update_status(hosts, id, status, since)
    /\ lastCall' = OpsCall("update_status", NoDialog.host, id, status, since, << >>,
                           update_status_signals(hosts, id, status), "None")
    /\ UNCHANGED OpsFrame
    /\ UNCHANGED ctlVars
    /\ UNCHANGED poolVars
    /\ UNCHANGED dashboard

OpBulkUpdateStatus(batch) ==
    /\ lastCall.op = "none"
    /\ hosts' = bulk_update_status(hosts, batch)
    /\ lastCall' = OpsCall("bulk_update_status", NoDialog.host, "", "", NoneTs, batch,
                           bulk_update_status_signals(hosts, batch), "None")
    /\ UNCHANGED OpsFrame
    /\ UNCHANGED ctlVars
    /\ UNCHANGED poolVars
    /\ UNCHANGED dashboard

OpLoad(host_list) ==
    /\ lastCall.op = "none"
    /\ hosts' = load(hosts, host_list)
    /\ lastCall' = OpsCall("load", NoDialog.host, "", "", NoneTs, host_list,
                           load_signals(hosts, host_list), "None")
    /\ UNCHANGED OpsFrame
    /\ UNCHANGED ctlVars
    /\ UNCHANGED poolVars
    /\ UNCHANGED dashboard

OpClear ==
    /\ lastCall.op = "none"
    /\ hosts' = clear(hosts)
    /\ lastCall' = OpsCall("clear", NoDialog.host, "", "", NoneTs, << >>, << >>, "None")
    /\ UNCHANGED OpsFrame
    /\ UNCHANGED ctlVars
    /\ UNCHANGED poolVars
    /\ UNCHANGED dashboard

\* the caller has looked at the outcome of its call
OpsReturn ==
    /\ lastCall.op # "none"
    /\ lastCall' = OpsIdle
    /\ UNCHANGED hosts
    /\ UNCHANGED OpsFrame
    /\ UNCHANGED ctlVars
    /\ UNCHANGED poolVars
    /\ UNCHANGED dashboard

OpsNext ==
    \/ \E host \in OpsHosts : OpAdd(host)
    \/ \E host \in OpsHosts : OpUpdate(host)
    \/ \E id \in Ids : OpDelete(id)
    \/ \E id \in Ids, status \in OpsStatuses, since \in StoreSince :
          OpUpdateStatus(id, status, since)
    \/ \E batch \in OpsBatches : OpBulkUpdateStatus(batch)
    \/ \E host_list \in OpsLists : OpLoad(host_list)
    \/ OpClear
    \/ OpsReturn

SpecOps == OpsInit /\ [][OpsNext]_vars

\* the status stored for the host of entry k of the batch when the entry is
\* reached: the status of the last earlier entry for the same host, or the
\* status before the call
C13_StatusAt(before, batch, k) ==
    LET earlier == {j \in 1 .. k - 1 : batch[j].id = batch[k].id}
    IN  IF earlier = {} THEN before[batch[k].id].status
        ELSE batch[CHOOSE j \in earlier : \A i \in earlier : i <= j].status

RECURSIVE C13_Expected(_, _, _)
\* the triples of the entries k, k + 1, ... that change a status
C13_Expected(before, batch, k) ==
    IF k > Len(batch) THEN << >>
    ELSE (IF /\ batch[k].id \in DOMAIN before
             /\ batch[k].status # C13_StatusAt(before, batch, k)
          THEN << <<batch[k].id, C13_StatusAt(before, batch, k), batch[k].status>> >>
          ELSE << >>)
         \o C13_Expected(before, batch, k + 1)

\* C13: bulk_update_status emits at most one hosts_batch_updated; it lists,
\* in input order, exactly the (id, old, new) of the entries whose host
\* exists and whose status differs from the one stored at that moment, and
\* nothing is emitted when no entry changes a status.
C13_BatchEventListsChanges ==
    lastCall.op = "bulk_update_status"
    => LET expected == C13_Expected(lastCall.before, lastCall.batch, 1)
       IN  /\ Len(lastCall.signals) <= 1
           /\ (lastCall.signals = << >>) <=> (expected = << >>)
           /\ \A k \in 1 .. Len(lastCall.signals) :
                 /\ lastCall.signals[k].sig = "hosts_batch_updated"
                 /\ lastCall.signals[k].changes = expected

\* Scenario D: a batch of three entries on existing hosts, one of them a
\* real transition and two of them no-ops, emitted one triple
C13_Witness ==
    /\ lastCall.op = "bulk_update_status"
    /\ Len(lastCall.batch) = 3
    /\ \A k \in 1 .. 3 : lastCall.batch[k].id \in DOMAIN lastCall.before
    /\ Len(lastCall.signals) = 1
    /\ Len(lastCall.signals[1].changes) = 1

\* C14: update_status emits status_changed(id, old, new) exactly when the
\* host exists and its stored status differs from the new one; old and new
\* are the statuses stored before and after the write; nothing else is
\* emitted.
C14_StatusChangedIffChanged ==
    lastCall.op = "update_status"
    => LET changed == /\ lastCall.id \in DOMAIN lastCall.before
                      /\ lastCall.before[lastCall.id].status # lastCall.status
       IN  /\ Len(lastCall.signals) = (IF changed THEN 1 ELSE 0)
           /\ \A k \in 1 .. Len(lastCall.signals) :
                 lastCall.signals[k] =
                    Signal("status_changed", lastCall.id,
                           lastCall.before[lastCall.id].status,
                           hosts[lastCall.id].status)

\* an OFFLINE host was written ONLINE and status_changed was emitted
C14_Witness ==
    /\ lastCall.op = "update_status"
    /\ lastCall.id \in DOMAIN lastCall.before
    /\ lastCall.before[lastCall.id].status = "OFFLINE"
    /\ lastCall.status = "ONLINE"
    /\ Len(lastCall.signals) = 1

\* C15: add with an id that is present leaves the store as it is and emits
\* nothing; add with a new id inserts the host and emits one host_added.
C15_AddKeepsExisting ==
    lastCall.op = "add"
    => IF lastCall.id \in DOMAIN lastCall.before
       THEN /\ hosts = lastCall.before
            /\ lastCall.signals = << >>
       ELSE /\ DOMAIN hosts = DOMAIN lastCall.before \cup {lastCall.id}
            /\ hosts[lastCall.id] = lastCall.host
            /\ \A i \in DOMAIN lastCall.before : hosts[i] = lastCall.before[i]
            /\ lastCall.signals = << Signal("host_added", lastCall.id, "", "") >>

\* Scenario C: add of a host whose id is present with other field values
C15_Witness ==
    /\ lastCall.op = "add"
    /\ lastCall.id \in DOMAIN lastCall.before
    /\ lastCall.before[lastCall.id] # lastCall.host
    /\ hosts[lastCall.id] = lastCall.before[lastCall.id]

\* C16: the caller of add that tests the result takes the success path
\* exactly when the host was inserted.
C16_AddReportsDuplicate ==
    lastCall.op = "add"
    => (lastCall.result = "True" <=> lastCall.id \notin DOMAIN lastCall.before)

\* C17: update of an id that is present stores the given record and emits
\* host_updated(id, old, new) with the record stored before the call as
\* old; update of an id that is not present inserts the host and emits
\* host_added and nothing else.
C17_UpdateReplacesOrAdds ==
    lastCall.op = "update"
    => /\ DOMAIN hosts = DOMAIN lastCall.before \cup {lastCall.id}
       /\ hosts[lastCall.id] = lastCall.host
       /\ \A i \in DOMAIN lastCall.before \ {lastCall.id} : hosts[i] = lastCall.before[i]
       /\ IF lastCall.id \in DOMAIN lastCall.before
          THEN \E k \in 1 .. Len(lastCall.signals) :
                  lastCall.signals[k] =
                     HostUpdated(lastCall.id, lastCall.before[lastCall.id],
                                 lastCall.host)
          ELSE lastCall.signals = << Signal("host_added", lastCall.id, "", "") >>

\* an existing record was replaced by one that differs from it
C17_Witness ==
    /\ lastCall.op = "update"
    /\ lastCall.id \in DOMAIN lastCall.before
    /\ lastCall.before[lastCall.id] # lastCall.host
    /\ hosts[lastCall.id] = lastCall.host

\* C18: update_status and bulk_update_status leave the set of ids as it is;
\* for an id that is not in the store they leave the store unchanged and
\* emit nothing; the set of ids changes only by add, update, delete, load
\* and clear.
C18_StatusWritesKeepIds ==
    /\ lastCall.op \in {"update_status", "bulk_update_status"}
       => DOMAIN hosts = DOMAIN lastCall.before
    /\ (lastCall.op = "update_status" /\ lastCall.id \notin DOMAIN lastCall.before)
       => (hosts = lastCall.before /\ lastCall.signals = << >>)
    /\ (/\ lastCall.op = "bulk_update_status"
        /\ \A k \in 1 .. Len(lastCall.batch) :
              lastCall.batch[k].id \notin DOMAIN lastCall.before)
       => (hosts = lastCall.before /\ lastCall.signals = << >>)
    /\ (lastCall.op # "none" /\ DOMAIN hosts # DOMAIN lastCall.before)
       => lastCall.op \in {"add", "update", "delete", "load", "clear"}

\* a status write for an id that is not in a non-empty store
C18_Witness ==
    /\ lastCall.op = "update_status"
    /\ lastCall.id \notin DOMAIN lastCall.before
    /\ lastCall.before # EmptyMap
    /\ hosts = lastCall.before

----------------------------------------------------------------------------
(* Spec: MonitorThread.run interleaved with the commands of the main       *)
(* thread.  A slot or a command of the main thread is one step.            *)

Names == {"a", "b"}

RunConfig == Config(WaitingTimeout, OfflineTimeout)

\* the ids uuid4 hands out in Spec
RunIds == {"h1"}

Init ==
    /\ hosts = EmptyMap
    /\ unused = RunIds
    /\ mutex = "free"
    /\ dashboard = NoStats
    /\ PoolOff
    /\ now = 0
    /\ pc = "top"
    /\ snapshot = EmptyMap
    /\ futures = {}
    /\ newly_offline = << >>
    /\ current_time = 0
    /\ interrupt_flag = FALSE
    /\ force_scan_flag = FALSE
    /\ running = TRUE
    /\ elapsed_wait = 0
    /\ dialog = NoDialog
    /\ calc = IdleCalc
    /\ hist = NoHist
    /\ threads = << >>
    /\ emitted = << >>
    /\ mutations = 0
    /\ lastCall = NoCall

\* MonitorSubscriber._on_host_info_updated, lines 73-89
info_update_interrupts(old_host, new_host) ==
    old_host.ip # new_host.ip
    \/ old_host.notifications_enabled # new_host.notifications_enabled

\* MonitorSubscriber.__init__, lines 37-39: HostRepository has no signal
\* host_info_updated (lines 35-40 of host_repository.py), the third connect
\* raises AttributeError, the constructor fails and the subscriber, with the
\* two connections it had made, is gone.  No module of the sources
\* constructs a MonitorSubscriber either.
subscriber_connected == "host_info_updated" \in
    {"host_added", "host_updated", "host_deleted", "hosts_loaded",
     "status_changed", "hosts_batch_updated"}

\* MonitorSubscriber._on_host_added, lines 43-52: the slot reads host.name
\* and host.ip of its argument before it calls interrupt_cycle; host_added
\* carries the id, a str, so the slot raises unless the signal has a Host
on_host_added(signal) == "new_host" \in DOMAIN signal

\* MonitorSubscriber._on_host_deleted, lines 54-63
on_host_deleted(signal) == TRUE

\* whether the signals of one store call make the subscriber call
\* MonitorThread.interrupt_cycle
subscriber_interrupts(signals) ==
    /\ subscriber_connected
    /\ \E k \in 1 .. Len(signals) :
          CASE signals[k].sig = "host_added" -> on_host_added(signals[k])
            [] signals[k].sig = "host_deleted" -> on_host_deleted(signals[k])
            [] signals[k].sig = "host_info_updated" ->
                  info_update_interrupts(signals[k].old_host, signals[k].new_host)
            [] OTHER -> FALSE

(* ---- MonitorThread.run ---- *)

\* lines 118-126: the store is empty, msleep(1000) and continue
EmptyWait ==
    /\ pc = "top" /\ running
    /\ DOMAIN hosts = {}
    /\ pc' = "emptywait"
    /\ UNCHANGED <<hosts, now, dialog, unused, calc, hist, snapshot, futures,
                   newly_offline, current_time, interrupt_flag, force_scan_flag,
                   running, elapsed_wait>>
    /\ UNCHANGED storeVars
    /\ UNCHANGED poolVars
    /\ UNCHANGED dashboard

\* line 125-126: the sleep is over
EmptyWake ==
    /\ pc = "emptywait"
    /\ pc' = "top"
    /\ UNCHANGED <<hosts, now, dialog, unused, calc, hist, snapshot, futures,
                   newly_offline, current_time, interrupt_flag, force_scan_flag,
                   running, elapsed_wait>>
    /\ UNCHANGED storeVars
    /\ UNCHANGED poolVars
    /\ UNCHANGED dashboard

\* lines 122-139: get_all, one future per host of the snapshot, current_time.
\* run passes connection_name to get_all; the snapshot is HostRepository.get_all,
\* a copy of the store taken under the mutex.
StartScan ==
    /\ pc = "top" /\ running
    /\ DOMAIN hosts # {}
    /\ snapshot' = hosts
    /\ futures' = DOMAIN hosts
    /\ newly_offline' = << >>
    /\ current_time' = now
    /\ pc' = "process"
    /\ UNCHANGED <<hosts, now, dialog, unused, calc, hist, interrupt_flag,
                   force_scan_flag, running, elapsed_wait>>
    /\ UNCHANGED storeVars
    /\ UNCHANGED poolVars
    /\ UNCHANGED dashboard

\* the loop over the results breaking on a stop only
ProcessResultIgnoringInterrupt(id, ping) ==
    /\ pc = "process"
    /\ running
    /\ id \in futures
    /\ LET host == snapshot[id]
           r    == calculate_status(host, check_host(host, ping), current_time,
                                    RunConfig)
       IN  /\ hosts' = IF r.should_update
                       THEN host_status_changed(hosts, id, r.new_status, r.offline_since)
                       ELSE hosts
           /\ newly_offline' =
                 IF r.should_update /\ r.new_status = "OFFLINE"
                    /\ host.status # "OFFLINE" /\ host.notifications_enabled
                 THEN Append(newly_offline, host.name)
                 ELSE newly_offline
    /\ futures' = futures \ {id}
    /\ UNCHANGED <<now, dialog, unused, calc, hist, pc, snapshot, current_time,
                   interrupt_flag, force_scan_flag, running, elapsed_wait>>
    /\ UNCHANGED storeVars
    /\ UNCHANGED poolVars
    /\ UNCHANGED dashboard

\* lines 142-163: the next completed future, in any order; ping is what
\* PingService.ping_host answered for the host
ProcessResult(id, ping) ==
    /\ pc = "process"
    /\ running /\ ~interrupt_flag
    /\ id \in futures
    /\ LET host == snapshot[id]
           r    == calculate_status(host, check_host(host, ping), current_time,
                                    RunConfig)
       IN  /\ hosts' = IF r.should_update
                       THEN host_status_changed(hosts, id, r.new_status, r.offline_since)
                       ELSE hosts
           /\ newly_offline' =
                 IF r.should_update /\ r.new_status = "OFFLINE"
                    /\ host.status # "OFFLINE" /\ host.notifications_enabled
                 THEN Append(newly_offline, host.name)
                 ELSE newly_offline
    /\ futures' = futures \ {id}
    /\ UNCHANGED <<now, dialog, unused, calc, hist, pc, snapshot, current_time,
                   interrupt_flag, force_scan_flag, running, elapsed_wait>>
    /\ UNCHANGED storeVars
    /\ UNCHANGED poolVars
    /\ UNCHANGED dashboard

\* lines 142-144 and the end of the for loop
EndResults ==
    /\ pc = "process"
    /\ futures = {} \/ ~running \/ interrupt_flag
    /\ pc' = "post"
    \* hosts_list, futures and current_time are not read after the loop
    /\ snapshot' = EmptyMap
    /\ futures' = {}
    /\ current_time' = 0
    /\ UNCHANGED <<hosts, now, dialog, unused, calc, hist, newly_offline,
                   interrupt_flag, force_scan_flag, running, elapsed_wait>>
    /\ UNCHANGED storeVars
    /\ UNCHANGED poolVars
    /\ UNCHANGED dashboard

\* lines 166-169: the cycle was interrupted, start the next one at once
RestartCycle ==
    /\ pc = "post"
    /\ interrupt_flag
    /\ interrupt_flag' = FALSE
    /\ pc' = "top"
    \* newly_offline is dropped without being emitted
    /\ newly_offline' = << >>
    /\ UNCHANGED <<hosts, now, dialog, unused, calc, hist, snapshot, futures,
                   current_time, force_scan_flag, running, elapsed_wait>>
    /\ UNCHANGED storeVars
    /\ UNCHANGED poolVars
    /\ UNCHANGED dashboard

\* lines 171-177: hosts_offline, scan_finished, elapsed_wait = 0
FinishScan ==
    /\ pc = "post"
    /\ ~interrupt_flag
    /\ elapsed_wait' = 0
    /\ pc' = "cooling"
    \* hosts_offline.emit(newly_offline) hands the list over
    /\ newly_offline' = << >>
    /\ UNCHANGED <<hosts, now, dialog, unused, calc, hist, snapshot, futures,
                   current_time, interrupt_flag, force_scan_flag, running>>
    /\ UNCHANGED storeVars
    /\ UNCHANGED poolVars
    /\ UNCHANGED dashboard

\* the pause looking at the force-scan flag only
CoolingStepIgnoresInterrupt ==
    /\ pc = "cooling"
    /\ elapsed_wait < MaxWait /\ running
    /\ elapsed_wait' = elapsed_wait + 1
    /\ IF force_scan_flag
       THEN /\ force_scan_flag' = FALSE
            /\ pc' = "top"
       ELSE UNCHANGED <<pc, force_scan_flag>>
    /\ UNCHANGED <<hosts, now, dialog, unused, calc, hist, snapshot, futures,
                   newly_offline, current_time, running, interrupt_flag>>
    /\ UNCHANGED storeVars
    /\ UNCHANGED poolVars
    /\ UNCHANGED dashboard

\* lines 178-189: one msleep(100) of the pause, then the flags
CoolingStep ==
    /\ pc = "cooling"
    /\ elapsed_wait < MaxWait /\ running
    /\ elapsed_wait' = elapsed_wait + 1
    /\ IF force_scan_flag
       THEN /\ force_scan_flag' = FALSE
            /\ pc' = "top"
            /\ UNCHANGED interrupt_flag
       ELSE IF interrupt_flag
            THEN /\ interrupt_flag' = FALSE
                 /\ pc' = "top"
                 /\ UNCHANGED force_scan_flag
            ELSE UNCHANGED <<pc, interrupt_flag, force_scan_flag>>
    /\ UNCHANGED <<hosts, now, dialog, unused, calc, hist, snapshot, futures,
                   newly_offline, current_time, running>>
    /\ UNCHANGED storeVars
    /\ UNCHANGED poolVars
    /\ UNCHANGED dashboard

\* line 178: the pause is over
CoolingEnd ==
    /\ pc = "cooling"
    /\ ~(elapsed_wait < MaxWait /\ running)
    /\ pc' = "top"
    /\ UNCHANGED <<hosts, now, dialog, unused, calc, hist, snapshot, futures,
                   newly_offline, current_time, interrupt_flag, force_scan_flag,
                   running, elapsed_wait>>
    /\ UNCHANGED storeVars
    /\ UNCHANGED poolVars
    /\ UNCHANGED dashboard

\* line 118: _running is false, run returns
ExitLoop ==
    /\ pc = "top" /\ ~running
    /\ pc' = "done"
    /\ UNCHANGED <<hosts, now, dialog, unused, calc, hist, snapshot, futures,
                   newly_offline, current_time, interrupt_flag, force_scan_flag,
                   running, elapsed_wait>>
    /\ UNCHANGED storeVars
    /\ UNCHANGED poolVars
    /\ UNCHANGED dashboard

(* ---- commands of the main thread ---- *)

\* MonitorThread.stop, line 82
Stop ==
    /\ running
    /\ running' = FALSE
    /\ UNCHANGED <<hosts, now, dialog, unused, calc, hist, pc, snapshot, futures,
                   newly_offline, current_time, interrupt_flag, force_scan_flag,
                   elapsed_wait>>
    /\ UNCHANGED storeVars
    /\ UNCHANGED poolVars
    /\ UNCHANGED dashboard

\* MonitorThread.force_scan, line 71
ForceScan ==
    /\ ~force_scan_flag
    /\ force_scan_flag' = TRUE
    /\ UNCHANGED <<hosts, now, dialog, unused, calc, hist, pc, snapshot, futures,
                   newly_offline, current_time, interrupt_flag, running,
                   elapsed_wait>>
    /\ UNCHANGED storeVars
    /\ UNCHANGED poolVars
    /\ UNCHANGED dashboard

\* MonitorThread.interrupt_cycle, lines 73-79
InterruptCycle ==
    /\ ~interrupt_flag
    /\ interrupt_flag' = TRUE
    /\ UNCHANGED <<hosts, now, dialog, unused, calc, hist, pc, snapshot, futures,
                   newly_offline, current_time, force_scan_flag, running,
                   elapsed_wait>>
    /\ UNCHANGED storeVars
    /\ UNCHANGED poolVars
    /\ UNCHANGED dashboard

\* HostManager.add_host, lines 21-30, then the slots of host_added
AddHost(id, name) ==
    /\ ~dialog.open
    /\ id \in unused
    /\ unused' = unused \ {id}
    /\ hosts' = add(hosts, NewHost(id, name, "ip", TRUE))
    /\ interrupt_flag' = (interrupt_flag \/ subscriber_interrupts(
                              add_signals(hosts, NewHost(id, name, "ip", TRUE))))
    /\ UNCHANGED <<now, dialog, calc, hist, pc, snapshot, futures, newly_offline,
                   current_time, force_scan_flag, running, elapsed_wait>>
    /\ UNCHANGED storeVars
    /\ UNCHANGED poolVars
    /\ UNCHANGED dashboard

\* HostManager.delete_host, lines 63-74, then the slots of host_deleted
DeleteHost(id) ==
    /\ ~dialog.open
    /\ id \in DOMAIN hosts
    /\ hosts' = delete(hosts, id)
    /\ interrupt_flag' = (interrupt_flag \/ subscriber_interrupts(delete_signals(hosts, id)))
    /\ UNCHANGED <<now, dialog, unused, calc, hist, pc, snapshot, futures,
                   newly_offline, current_time, force_scan_flag, running,
                   elapsed_wait>>
    /\ UNCHANGED storeVars
    /\ UNCHANGED poolVars
    /\ UNCHANGED dashboard

\* HostManager.toggle_maintenance, lines 115-120
ToggleMaintenance(id) ==
    /\ ~dialog.open
    /\ id \in DOMAIN hosts
    /\ hosts' = update_status(hosts, id,
                              IF hosts[id].status = "MAINTENANCE" THEN "ONLINE"
                              ELSE "MAINTENANCE",
                              NoneTs)
    /\ UNCHANGED <<now, dialog, unused, calc, hist>>
    /\ UNCHANGED ctlVars
    /\ UNCHANGED storeVars
    /\ UNCHANGED poolVars
    /\ UNCHANGED dashboard

\* HostManager.edit_host, lines 79-83: the dialog is opened on the host
EditOpen(id) ==
    /\ ~dialog.open
    /\ id \in DOMAIN hosts
    /\ dialog' = [open |-> TRUE, host |-> hosts[id]]
    /\ UNCHANGED <<hosts, now, unused, calc, hist>>
    /\ UNCHANGED ctlVars
    /\ UNCHANGED storeVars
    /\ UNCHANGED poolVars
    /\ UNCHANGED dashboard

\* HostManager.edit_host, lines 84-89 with HostDialog.get_host, lines 133-139,
\* then the slots of host_updated and status_changed
EditAccept(name, ne) ==
    /\ dialog.open
    /\ LET edited == [dialog.host EXCEPT !.name = name,
                                         !.notifications_enabled = ne]
       IN  /\ hosts' = update(hosts, edited)
           /\ interrupt_flag' = (interrupt_flag \/ subscriber_interrupts(
                                     update_signals(hosts, edited)))
    /\ dialog' = NoDialog
    /\ UNCHANGED <<now, unused, calc, hist, pc, snapshot, futures, newly_offline,
                   current_time, force_scan_flag, running, elapsed_wait>>
    /\ UNCHANGED storeVars
    /\ UNCHANGED poolVars
    /\ UNCHANGED dashboard

\* HostManager.edit_host, line 84: the dialog is rejected
EditCancel ==
    /\ dialog.open
    /\ dialog' = NoDialog
    /\ UNCHANGED <<hosts, now, unused, calc, hist>>
    /\ UNCHANGED ctlVars
    /\ UNCHANGED storeVars
    /\ UNCHANGED poolVars
    /\ UNCHANGED dashboard

\* HostManager.toggle_notifications, lines 179-188, asks the repository for
\* get_hosts_by_ids, which core.host_repository.HostRepository does not
\* define: the command raises before it reaches the store and is no step.

\* the wall clock advances
Tick ==
    /\ now < MaxClock * ClockStep
    /\ now' = now + ClockStep
    /\ UNCHANGED <<hosts, dialog, unused, calc, hist>>
    /\ UNCHANGED ctlVars
    /\ UNCHANGED storeVars
    /\ UNCHANGED poolVars
    /\ UNCHANGED dashboard

Next ==
    \/ EmptyWait
    \/ EmptyWake
    \/ StartScan
    \/ \E id \in Ids, ping \in BOOLEAN : ProcessResult(id, ping)
    \/ EndResults
    \/ RestartCycle
    \/ FinishScan
    \/ CoolingStep
    \/ CoolingEnd
    \/ ExitLoop
    \/ Stop
    \/ ForceScan
    \/ InterruptCycle
    \/ \E id \in Ids, name \in Names : AddHost(id, name)
    \/ \E id \in Ids : DeleteHost(id)
    \/ \E id \in Ids : ToggleMaintenance(id)
    \/ \E id \in Ids : EditOpen(id)
    \/ \E name \in Names, ne \in BOOLEAN : EditAccept(name, ne)
    \/ EditCancel
    \/ Tick

Spec == Init /\ [][Next]_vars

----------------------------------------------------------------------------
(* Claims about the store under MonitorThread.run and the commands.        *)

\* a maintenance toggle of some host
SomeToggleMaintenance == \E id \in Ids : ToggleMaintenance(id)

\* C1: a host in MAINTENANCE leaves MAINTENANCE only by an explicit
\* maintenance toggle, whatever probe results and commands interleave.
C1_MaintenanceIsSticky ==
    [][\A id \in Ids :
          (/\ id \in DOMAIN hosts
           /\ id \in DOMAIN hosts'
           /\ hosts[id].status = "MAINTENANCE"
           /\ hosts'[id].status # "MAINTENANCE")
          => SomeToggleMaintenance]_vars

\* the controller is between two monitoring cycles
CycleBoundary == pc \in {"top", "emptywait", "cooling", "done"}

MetadataEdit == \E name \in Names, ne \in BOOLEAN : EditAccept(name, ne)

\* C9: a metadata edit leaves status and unhealthy_since of the host as
\* they are in the store.
C9_EditKeepsStatusAndSince ==
    [][MetadataEdit =>
          \A id \in DOMAIN hosts \cap DOMAIN hosts' :
              /\ hosts'[id].status = hosts[id].status
              /\ hosts'[id].offline_since = hosts[id].offline_since]_vars

\* C19: when the force-scan or the interrupt flag is up during the pause
\* between two cycles, the next wake-up of the pause ends it and takes the
\* controller to the start of the next scan, whatever elapsed_wait is; as
\* long as the controller stays in the pause the request stays up.
C19_FlagEndsCooling ==
    [][(pc = "cooling" /\ (force_scan_flag \/ interrupt_flag))
       => /\ (CoolingStep \/ CoolingEnd) => pc' = "top"
          /\ pc' = "cooling" => /\ force_scan_flag => force_scan_flag'
                                /\ interrupt_flag => interrupt_flag']_vars

\* the pause was left before elapsed_wait reached its end, the flags are down
C19_Witness ==
    /\ pc = "top"
    /\ running
    /\ elapsed_wait > 0
    /\ elapsed_wait < MaxWait
    /\ ~force_scan_flag
    /\ ~interrupt_flag

\* lines 171-172: the cycle hands its list to hosts_offline
EmitsHostsOffline == FinishScan /\ newly_offline # << >>

\* C20: newly_offline holds the names of the hosts with notifications
\* enabled that the cycle wrote from a status other than OFFLINE to OFFLINE
\* (lines 159-160); a cycle that ends, completed or interrupted, with such
\* names collected emits them with hosts_offline.
C20_OfflineWritesAreNotified ==
    [][(pc = "post" /\ pc' # "post" /\ newly_offline # << >>)
       => EmitsHostsOffline]_vars

\* C27: every add and every delete makes the subscriber call
\* interrupt_cycle, and an update of an existing host does so exactly when
\* its ip or its notifications_enabled changed.
C27_StoreChangesInterrupt ==
    [][/\ (\E id \in Ids, name \in Names : AddHost(id, name)) => interrupt_flag'
       /\ (\E id \in Ids : DeleteHost(id)) => interrupt_flag'
       /\ \A name \in Names, ne \in BOOLEAN :
             (EditAccept(name, ne) /\ ~interrupt_flag)
             => (interrupt_flag' <=> ne # dialog.host.notifications_enabled)]_vars

\* C28: with the interrupt flag set while results are processed, no further
\* result of the cycle is processed (no future is consumed, no newly-offline
\* entry is added), the cycle goes on to the next one without a cooling wait,
\* and every snapshot is the store as it is when the next cycle starts, after
\* the interrupt.
C28_InterruptCutsProcessing ==
    [][/\ (pc = "process" /\ interrupt_flag)
              => /\ newly_offline' = newly_offline
                 /\ pc' = "process" => futures' = futures
                 /\ pc' \in {"process", "post"}
       /\ (pc = "post" /\ interrupt_flag) => pc' \in {"post", "top"}
       /\ (pc # "process" /\ pc' = "process")
              => (pc = "top" /\ snapshot' = hosts')]_vars

\* the flag is set while a result of the cycle is still to be processed
C28_Witness == pc = "process" /\ interrupt_flag /\ futures # {}

----------------------------------------------------------------------------
(* SpecPool: MonitorThread.run with its thread pool.  The controller       *)
(* submits one probe per host of the snapshot, the workers of the pool run *)
(* them, the controller handles each result as it completes; the main      *)
(* thread stops the controller, interrupts the cycle, changes the          *)
(* configuration (update_config and, in two steps, _update_executor) and   *)
(* adds and deletes hosts.  The clock stands still.                        *)

MaxStray == 2

\* the configurations handed to update_config
ConfigChoices ==
    {AppConfig(w, DefaultOfflineTimeout, mw) :
        w \in {MinWaitingTimeout - 1, DefaultWaitingTimeout, DialogMaxWaiting},
        mw \in {MinMaxWorkers, MinMaxWorkers + 1}}

IdOrder == <<"h1", "h2">>

\* HostRepository.get_all, the list run iterates (line 122)
hosts_list(hs) == SelectSeq(IdOrder, LAMBDA i : i \in DOMAIN hs)

\* line 118: while self._running
loop_continues(is_running) == is_running

\* "for host in hosts" staying on the host it is at
rest_repeating(hosts_left) == hosts_left

\* line 132: for host in hosts, the hosts after the one at hand
rest(hosts_left) == Tail(hosts_left)

Unfinished(ts) == {i \in Ids : ts[i] \in {"pending", "running"}}

Counted(n) == IF n < 2 THEN n + 1 ELSE 2

\* what every step of SpecPool leaves alone
PoolFrame == <<now, calc, hist, dialog, unused, dashboard, force_scan_flag>>

PoolInit ==
    /\ hosts = EmptyMap
    /\ now = 0
    /\ calc = IdleCalc
    /\ hist = NoHist
    /\ threads = << >>
    /\ emitted = << >>
    /\ mutations = 0
    /\ lastCall = NoCall
    /\ mutex = "free"
    /\ dashboard = NoStats
    /\ dialog = NoDialog
    /\ unused = {}
    /\ pc = "top"
    /\ snapshot = EmptyMap
    /\ futures = {}
    /\ newly_offline = << >>
    /\ current_time = 0
    /\ interrupt_flag = FALSE
    /\ force_scan_flag = FALSE
    /\ running = TRUE
    /\ elapsed_wait = 0
    \* __init__, lines 42-47; the configuration is the one storage loaded
    /\ config = AppConfig(DefaultWaitingTimeout, DefaultOfflineTimeout, MinMaxWorkers)
    \* lines 53-57: what sys.version_info says about the interpreter
    /\ executor \in [state : {"active"}, cancel_futures : BOOLEAN]
    /\ tasks = NoTasks
    /\ todo = << >>
    /\ stray = 0
    /\ audit = NoAudit

\* the probes the controller no longer waits for
Abandon ==
    /\ stray' = stray + Cardinality(Unfinished(tasks))
    /\ tasks' = NoTasks
    /\ futures' = {}
    /\ snapshot' = EmptyMap
    /\ todo' = << >>
    /\ audit' = NoAudit

\* lines 118-126: the store is empty, msleep(1000) and continue
PoolEmptyWait ==
    /\ pc = "top" /\ loop_continues(running)
    /\ DOMAIN hosts = {}
    /\ pc' = "emptywait"
    /\ UNCHANGED <<hosts, snapshot, futures, newly_offline, current_time,
                   interrupt_flag, running, elapsed_wait>>
    /\ UNCHANGED <<poolVars, PoolFrame, storeVars>>

PoolEmptyWake ==
    /\ pc = "emptywait"
    /\ pc' = "top"
    /\ UNCHANGED <<hosts, snapshot, futures, newly_offline, current_time,
                   interrupt_flag, running, elapsed_wait>>
    /\ UNCHANGED <<poolVars, PoolFrame, storeVars>>

\* line 118: the loop is left
PoolExitLoop ==
    /\ pc = "top" /\ ~loop_continues(running)
    /\ pc' = "done"
    /\ UNCHANGED <<hosts, snapshot, futures, newly_offline, current_time,
                   interrupt_flag, running, elapsed_wait>>
    /\ UNCHANGED <<poolVars, PoolFrame, storeVars>>

\* lines 122-131: get_all, scan_started, the empty futures dict
PoolStartScan ==
    /\ pc = "top" /\ loop_continues(running)
    /\ DOMAIN hosts # {}
    /\ stray + Cardinality(DOMAIN hosts) <= MaxStray
    /\ snapshot' = hosts
    /\ todo' = hosts_list(hosts)
    /\ futures' = {}
    /\ tasks' = NoTasks
    /\ audit' = NoAudit
    /\ pc' = "submit"
    /\ UNCHANGED <<hosts, newly_offline, current_time, interrupt_flag, running,
                   elapsed_wait, config, executor, stray>>
    /\ UNCHANGED <<PoolFrame, storeVars>>

\* lines 132-139: executor.submit for the next host of the list, and after
\* the last one newly_offline and current_time
PoolSubmit ==
    /\ pc = "submit" /\ todo # << >>
    /\ running
    /\ executor.state = "active"
    /\ LET id == Head(todo)
       IN  /\ tasks' = [tasks EXCEPT ![id] = "pending"]
           /\ futures' = futures \cup {id}
           /\ audit' = [audit EXCEPT !.submitted[id] = Counted(@)]
    /\ todo' = rest(todo)
    /\ IF rest(todo) = << >>
       THEN /\ pc' = "process"
            /\ newly_offline' = << >>
            /\ current_time' = now
       ELSE UNCHANGED <<pc, newly_offline, current_time>>
    /\ UNCHANGED <<hosts, snapshot, interrupt_flag, running, elapsed_wait, config,
                   executor, stray>>
    /\ UNCHANGED <<PoolFrame, storeVars>>

\* lines 133-134: the controller was stopped, the submit loop breaks
PoolSubmitBreak ==
    /\ pc = "submit" /\ todo # << >>
    /\ ~running
    /\ todo' = << >>
    /\ pc' = "process"
    /\ newly_offline' = << >>
    /\ current_time' = now
    /\ UNCHANGED <<hosts, snapshot, futures, interrupt_flag, running, elapsed_wait,
                   config, executor, tasks, stray, audit>>
    /\ UNCHANGED <<PoolFrame, storeVars>>

\* line 135 on a pool that was shut down: submit raises RuntimeError, which
\* is caught at line 191; error_occurred is emitted
PoolSubmitRaises ==
    /\ pc = "submit" /\ todo # << >>
    /\ executor.state = "shutdown"
    /\ pc' = "backoff"
    /\ Abandon
    /\ UNCHANGED <<hosts, newly_offline, current_time, interrupt_flag, running,
                   elapsed_wait, config, executor>>
    /\ UNCHANGED <<PoolFrame, storeVars>>

\* line 194: msleep(5000) is over
PoolBackoffEnd ==
    /\ pc = "backoff"
    /\ pc' = "top"
    /\ UNCHANGED <<hosts, snapshot, futures, newly_offline, current_time,
                   interrupt_flag, running, elapsed_wait>>
    /\ UNCHANGED <<poolVars, PoolFrame, storeVars>>

\* a worker of the pool takes the work item from the queue
TaskStart(id) ==
    /\ tasks[id] = "pending"
    /\ tasks' = [tasks EXCEPT ![id] = "running"]
    /\ UNCHANGED <<hosts, pc, snapshot, futures, newly_offline, current_time,
                   interrupt_flag, running, elapsed_wait, config, executor, todo,
                   stray, audit>>
    /\ UNCHANGED <<PoolFrame, storeVars>>

\* _check_host returns, lines 90-100
TaskFinish(id) ==
    /\ tasks[id] = "running"
    /\ tasks' = [tasks EXCEPT ![id] = "done"]
    /\ UNCHANGED <<hosts, pc, snapshot, futures, newly_offline, current_time,
                   interrupt_flag, running, elapsed_wait, config, executor, todo,
                   stray, audit>>
    /\ UNCHANGED <<PoolFrame, storeVars>>

\* a probe of an earlier cycle comes to its end
StrayFinish ==
    /\ stray > 0
    /\ stray' = stray - 1
    /\ UNCHANGED <<hosts, pc, snapshot, futures, newly_offline, current_time,
                   interrupt_flag, running, elapsed_wait, config, executor, tasks,
                   todo, audit>>
    /\ UNCHANGED <<PoolFrame, storeVars>>

\* line 142: as_completed hands over the futures that finished, and the
\* loop ends when it has handed over all of them.  A future cancelled by
\* shutdown(cancel_futures=True) is not among them: its work item was taken
\* from the queue, so no worker marks it as notified, and as_completed waits
\* for it without a timeout.
as_completed(fs, ts) == {id \in fs : ts[id] = "done"}

\* lines 142-160: as_completed hands over a future that has a result
PoolProcessResult(id, ping) ==
    /\ pc = "process"
    /\ running /\ ~interrupt_flag
    /\ id \in as_completed(futures, tasks)
    /\ LET host == snapshot[id]
           r    == calculate_status(host, check_host(host, ping), current_time,
                                    config)
       IN  /\ hosts' = IF r.should_update
                       THEN host_status_changed(hosts, id, r.new_status, r.offline_since)
                       ELSE hosts
           /\ newly_offline' =
                 IF r.should_update /\ r.new_status = "OFFLINE"
                    /\ host.status # "OFFLINE" /\ host.notifications_enabled
                 THEN Append(newly_offline, host.name)
                 ELSE newly_offline
           /\ audit' = IF r.should_update
                       THEN [audit EXCEPT !.written[id] = Counted(@)]
                       ELSE audit
    /\ futures' = futures \ {id}
    /\ tasks' = [tasks EXCEPT ![id] = "none"]
    /\ UNCHANGED <<pc, snapshot, current_time, interrupt_flag, running,
                   elapsed_wait, config, executor, todo, stray>>
    /\ UNCHANGED <<PoolFrame, storeVars>>

\* lines 142-144: no future is left, or one is handed over and the
\* controller finds itself stopped or interrupted
PoolEndResults ==
    /\ pc = "process"
    /\ \/ futures = {}
       \/ /\ ~running \/ interrupt_flag
          /\ as_completed(futures, tasks) # {}
    /\ pc' = "post"
    /\ Abandon
    /\ current_time' = 0
    /\ UNCHANGED <<hosts, newly_offline, interrupt_flag, running, elapsed_wait,
                   config, executor>>
    /\ UNCHANGED <<PoolFrame, storeVars>>

\* lines 166-169
PoolRestartCycle ==
    /\ pc = "post"
    /\ interrupt_flag
    /\ interrupt_flag' = FALSE
    /\ pc' = "top"
    /\ newly_offline' = << >>
    /\ UNCHANGED <<hosts, snapshot, futures, current_time, running, elapsed_wait>>
    /\ UNCHANGED <<poolVars, PoolFrame, storeVars>>

\* lines 171-177
PoolFinishScan ==
    /\ pc = "post"
    /\ ~interrupt_flag
    /\ elapsed_wait' = 0
    /\ pc' = "cooling"
    /\ newly_offline' = << >>
    /\ UNCHANGED <<hosts, snapshot, futures, current_time, interrupt_flag, running>>
    /\ UNCHANGED <<poolVars, PoolFrame, storeVars>>

\* lines 178-189; the force-scan flag is never set here
PoolCoolingStep ==
    /\ pc = "cooling"
    /\ elapsed_wait < MaxWait /\ running
    /\ IF interrupt_flag
       THEN /\ interrupt_flag' = FALSE
            /\ pc' = "top"
            /\ elapsed_wait' = 0
       ELSE /\ elapsed_wait' = elapsed_wait + 1
            /\ UNCHANGED <<pc, interrupt_flag>>
    /\ UNCHANGED <<hosts, snapshot, futures, newly_offline, current_time, running>>
    /\ UNCHANGED <<poolVars, PoolFrame, storeVars>>

\* line 178: the pause is over, or the controller was stopped
PoolCoolingEnd ==
    /\ pc = "cooling"
    /\ ~(elapsed_wait < MaxWait /\ running)
    /\ pc' = "top"
    /\ elapsed_wait' = 0
    /\ UNCHANGED <<hosts, snapshot, futures, newly_offline, current_time,
                   interrupt_flag, running>>
    /\ UNCHANGED <<poolVars, PoolFrame, storeVars>>

(* ---- the main thread ---- *)

\* MonitorThread.stop, lines 81-88: _running = False and shutdown(wait=True),
\* which closes the pool to new work and lets the queued probes run; the
\* main thread then waits and gives no further command
PoolStop ==
    /\ running
    /\ executor.state = "active"
    /\ running' = FALSE
    /\ executor' = [executor EXCEPT !.state = "shutdown"]
    /\ UNCHANGED <<hosts, pc, snapshot, futures, newly_offline, current_time,
                   interrupt_flag, elapsed_wait, config, tasks, todo, stray, audit>>
    /\ UNCHANGED <<PoolFrame, storeVars>>

\* MonitorThread.interrupt_cycle, lines 73-79
PoolInterrupt ==
    /\ running
    /\ executor.state = "active"
    /\ ~interrupt_flag
    /\ interrupt_flag' = TRUE
    /\ UNCHANGED <<hosts, pc, snapshot, futures, newly_offline, current_time,
                   running, elapsed_wait>>
    /\ UNCHANGED <<poolVars, PoolFrame, storeVars>>

\* MainWindow._open_settings, lines 394-400: AppConfig(...) validates, then
\* update_config, lines 62-67, and of _update_executor the shutdown of the
\* old pool, lines 51-59: with cancel_futures the queued probes are cancelled
PoolUpdateConfig(c) ==
    /\ running
    /\ executor.state = "active"
    /\ AppConfigAccepts(c)
    /\ c # config
    /\ config' = c
    /\ IF c.max_workers # config.max_workers
       THEN /\ executor' = [executor EXCEPT !.state = "shutdown"]
            /\ tasks' = IF executor.cancel_futures
                        THEN [i \in Ids |-> IF tasks[i] = "pending" THEN "cancelled"
                                            ELSE tasks[i]]
                        ELSE tasks
       ELSE UNCHANGED <<executor, tasks>>
    /\ UNCHANGED <<hosts, pc, snapshot, futures, newly_offline, current_time,
                   interrupt_flag, running, elapsed_wait, todo, stray, audit>>
    /\ UNCHANGED <<PoolFrame, storeVars>>

\* _update_executor, line 60: the new pool is assigned
PoolReplaceExecutor ==
    /\ running
    /\ executor.state = "shutdown"
    /\ executor' = [executor EXCEPT !.state = "active"]
    /\ UNCHANGED <<hosts, pc, snapshot, futures, newly_offline, current_time,
                   interrupt_flag, running, elapsed_wait, config, tasks, todo,
                   stray, audit>>
    /\ UNCHANGED <<PoolFrame, storeVars>>

\* HostManager.add_host, lines 21-30, then the slots of host_added
PoolAddHost(id) ==
    /\ running
    /\ executor.state = "active"
    /\ id \notin DOMAIN hosts
    /\ hosts' = add(hosts, NewHost(id, "a", "ip", TRUE))
    /\ interrupt_flag' = (interrupt_flag \/ subscriber_interrupts(
                              add_signals(hosts, NewHost(id, "a", "ip", TRUE))))
    /\ UNCHANGED <<pc, snapshot, futures, newly_offline, current_time, running,
                   elapsed_wait>>
    /\ UNCHANGED <<poolVars, PoolFrame, storeVars>>

\* HostManager.delete_host, lines 63-74, then the slots of host_deleted
PoolDeleteHost(id) ==
    /\ running
    /\ executor.state = "active"
    /\ id \in DOMAIN hosts
    /\ hosts' = delete(hosts, id)
    /\ interrupt_flag' = (interrupt_flag \/ subscriber_interrupts(delete_signals(hosts, id)))
    /\ UNCHANGED <<pc, snapshot, futures, newly_offline, current_time, running,
                   elapsed_wait>>
    /\ UNCHANGED <<poolVars, PoolFrame, storeVars>>

\* the steps of the controller thread
PoolController ==
    \/ PoolEmptyWait
    \/ PoolEmptyWake
    \/ PoolExitLoop
    \/ PoolStartScan
    \/ PoolSubmit
    \/ PoolSubmitBreak
    \/ PoolSubmitRaises
    \/ PoolBackoffEnd
    \/ \E id \in Ids, ping \in BOOLEAN : PoolProcessResult(id, ping)
    \/ PoolEndResults
    \/ PoolRestartCycle
    \/ PoolFinishScan
    \/ PoolCoolingStep
    \/ PoolCoolingEnd

\* the steps of the workers of the pool
PoolWorkers ==
    \/ \E id \in Ids : TaskStart(id)
    \/ \E id \in Ids : TaskFinish(id)
    \/ StrayFinish

\* the commands of the main thread
PoolCommands ==
    \/ PoolStop
    \/ PoolInterrupt
    \/ \E c \in ConfigChoices : PoolUpdateConfig(c)
    \/ PoolReplaceExecutor
    \/ \E id \in Ids : PoolAddHost(id)
    \/ \E id \in Ids : PoolDeleteHost(id)

PoolNext == PoolController \/ PoolWorkers \/ PoolCommands

SpecPool == PoolInit /\ [][PoolNext]_vars

\* the controller thread and the workers are threads of the operating
\* system: each of them goes on while it has a step to take
SpecPoolFair ==
    /\ PoolInit /\ [][PoolNext]_vars
    /\ WF_vars(PoolController)
    /\ WF_vars(PoolWorkers)

\* the loop of run has returned and no probe is queued or running
Terminal == pc = "done" /\ Unfinished(tasks) = {} /\ stray = 0

\* C21: once the controller is stopped, in whatever state it is (submitting,
\* waiting for results, pausing, waiting on an empty store, backing off
\* after an error), it starts no further scan, and it comes to the state
\* where the loop has returned and no probe is queued or running, and
\* stays there.
C21_StopTerminates ==
    /\ [][~running => ~(pc = "top" /\ pc' = "submit")]_vars
    /\ ~running ~> Terminal
    /\ [](Terminal => []Terminal)

\* C22: a change of max_workers during a scan drops no work: no submitted
\* probe is cancelled instead of run, and the cycle of a running controller
\* does not end in the error branch with hosts left unsubmitted.
C22_ResizeDropsNoWork ==
    /\ \A id \in Ids : tasks[id] # "cancelled"
    /\ pc = "backoff" => ~running

\* C26: the thresholds the calculator works with satisfy
\* waiting_timeout < offline_timeout.
C26_WaitingBelowOffline == config.waiting_timeout < config.offline_timeout

\* C29: a cycle takes one snapshot, the store as it is at the start of the
\* cycle; adds and deletes during the cycle leave it alone; only hosts of
\* the snapshot are submitted, each at most once, with at most one status
\* write each.
C29_OneSnapshotPerCycle ==
    /\ [](/\ futures \subseteq DOMAIN snapshot
          /\ \A k \in 1 .. Len(todo) : todo[k] \in DOMAIN snapshot
          /\ \A id \in Ids :
                /\ audit.submitted[id] <= 1
                /\ audit.written[id] <= audit.submitted[id]
                /\ audit.submitted[id] = 1 => id \in DOMAIN snapshot)
    /\ [][/\ snapshot' # snapshot
             => \/ pc = "top" /\ pc' = "submit" /\ snapshot' = hosts
                \/ pc' \in {"post", "backoff"} /\ snapshot' = EmptyMap
          /\ (pc = "top" /\ pc' = "submit")
             => snapshot' = hosts /\ todo' = hosts_list(hosts)]_vars

\* C29 witness: both hosts of the snapshot were submitted, one was deleted
\* from the store during the cycle and a status was written
C29_Witness ==
    /\ pc = "process"
    /\ DOMAIN snapshot = Ids
    /\ DOMAIN hosts # Ids
    /\ \A id \in Ids : audit.submitted[id] = 1
    /\ \E id \in Ids : audit.written[id] = 1

====
